---- MODULE Spec2Model ----
(***************************************************************************)
(* Model of the spend-governed turn orchestrator of llm_snowglobe:         *)
(*   - core/cost_tracker.py : PRICING, CostTracker (the cost ledger)       *)
(*   - user_defined_game.py : UserDefinedGame.game / __call__              *)
(*                                                                         *)
(* Units.  Money is kept exact instead of in binary floating point:        *)
(*   - rates are in cents per 1M tokens (0.15 USD -> 15),                  *)
(*   - a stored cost (round(cost, 6)) is an integer number of micro-USD,   *)
(*   - an unrounded estimate is an integer number of 1/400 micro-USD       *)
(*     (chars/4 tokens * cents/100 per 1e6 tokens = chars*rate/400 uUSD),  *)
(*   - caps and check_budget's estimated_cost are in micro-USD,            *)
(*   - time.time() is an integer number of seconds,                        *)
(*   - a duration is in milliseconds, a stored one in centiseconds.        *)
(***************************************************************************)
EXTENDS Integers, Sequences, FiniteSets, TLC

VARIABLES
  now,       \* time.time(), seconds
  fs,        \* the data directory: names -> inodes, inode contents
  tracker,   \* the CostTracker attached to the shared LLM client
  op,        \* the last ledger call made on `tracker` and what it returned
  procs,     \* CostTracker instances of other processes sharing the path
  returned,  \* entries whose record() call has returned, per process
  game,      \* the UserDefinedGame session (round loop, advisors, group)
  ctl        \* the UI controller: game_state, the sessions it started, stop_game calls

vars == <<now, fs, tracker, op, procs, returned, game, ctl>>

----------------------------------------------------------------------------
(* Bounds of the model *)

MaxRecords == 2     \* record() calls made on the tracker of the ledger spec
MaxDays == 1        \* the clock runs over this many 24h windows
MaxSkew == 1        \* ... and this many seconds past a window boundary
MaxWrites == 1      \* record() calls per concurrent writer process
MaxMoves == 2       \* configured moves of a game
MaxAdvisors == 2    \* advisors of a game
MaxChats == 1       \* chat exchanges answered by the advisors of a session
MaxSessions == 2    \* start_game calls the controller serves

----------------------------------------------------------------------------
(* Program constants *)

CHARS_PER_TOKEN == 4
DEFAULT_DAILY_CAP == 2000000
DEFAULT_TOTAL_CAP == 10000000
WINDOW == 86400
None == -1

\* cents per micro-USD-per-token scale: cost_uUSD = chars * rate / UNIT
UNIT == CHARS_PER_TOKEN * 100

----------------------------------------------------------------------------
(* Arithmetic helpers: Python's round() is round-half-to-even *)

RoundHalfEven(n, d) ==
  LET q == n \div d
      r == n % d
  IN  IF 2 * r < d THEN q
      ELSE IF 2 * r > d THEN q + 1
      ELSE IF q % 2 = 0 THEN q ELSE q + 1

Max(a, b) == IF a >= b THEN a ELSE b

IsPrefix(p, s) == Len(p) <= Len(s) /\ SubSeq(s, 1, Len(p)) = p

----------------------------------------------------------------------------
(* PricingCatalog.  A model name is a sequence of name segments, so that    *)
(* str.startswith is sequence prefix: "gpt-4o-mini" = <<"gpt-4o","-mini">>. *)

PRICING == <<
  [source |-> "google", prefix |-> <<"gemini-2.5", "-flash">>, input |-> 15,  output |-> 60],
  [source |-> "google", prefix |-> <<"gemini-2.5", "-pro">>,   input |-> 125, output |-> 1000],
  [source |-> "google", prefix |-> <<"gemini-2.0", "-flash">>, input |-> 10,  output |-> 40],
  [source |-> "ollama", prefix |-> <<>>,                       input |-> 0,   output |-> 0],
  [source |-> "openai", prefix |-> <<"gpt-4o">>,               input |-> 250, output |-> 1000],
  [source |-> "openai", prefix |-> <<"gpt-4o", "-mini">>,      input |-> 15,  output |-> 60]
>>

\* a fallback of 0.05 and 0.15 USD per 1M tokens
FALLBACK_CHEAP == [input |-> 5, output |-> 15]

\* the rates _lookup_pricing returns when nothing matches
FALLBACK_PRICE == [input |-> 500, output |-> 1500]

PriceOf(i) == [input |-> PRICING[i].input, output |-> PRICING[i].output]

\* a lookup that matches the model name against the table whatever the
\* provider is
_lookup_by_model(source, model) ==
  LET exact == {i \in DOMAIN PRICING : PRICING[i].prefix = model}
      pref  == {i \in DOMAIN PRICING : IsPrefix(PRICING[i].prefix, model)}
      first(S) == CHOOSE i \in S : \A j \in S : i <= j
  IN  IF exact # {} THEN PriceOf(first(exact))
      ELSE IF pref # {} THEN PriceOf(first(pref))
      ELSE FALLBACK_PRICE

\* a lookup that takes the longest matching prefix instead of the first
\* declared one
_lookup_longest(source, model) ==
  LET pref == {i \in DOMAIN PRICING :
                 PRICING[i].source = source /\ IsPrefix(PRICING[i].prefix, model)}
      longest == CHOOSE i \in pref :
                   \A j \in pref : Len(PRICING[j].prefix) <= Len(PRICING[i].prefix)
  IN  IF source = "ollama" THEN [input |-> 0, output |-> 0]
      ELSE IF pref # {} THEN PriceOf(longest)
      ELSE FALLBACK_PRICE

\* CostTracker._lookup_pricing
_lookup_pricing(source, model) ==
  LET exact == {i \in DOMAIN PRICING :
                  PRICING[i].source = source /\ PRICING[i].prefix = model}
      pref  == {i \in DOMAIN PRICING :
                  PRICING[i].source = source /\ IsPrefix(PRICING[i].prefix, model)}
      first(S) == CHOOSE i \in S : \A j \in S : i <= j
  IN  IF source = "ollama" THEN [input |-> 0, output |-> 0]
      ELSE IF exact # {} THEN PriceOf(first(exact))
      ELSE IF pref # {} THEN PriceOf(first(pref))
      ELSE FALLBACK_PRICE

\* an estimate that prices all the characters of a call at the input rate
estimate_cost_joint(source, model, prompt_chars, response_chars) ==
  LET pricing == _lookup_pricing(source, model)
  IN  (prompt_chars + response_chars) * pricing.input

\* CostTracker.estimate_cost, in 1/UNIT micro-USD (exact)
estimate_cost(source, model, prompt_chars, response_chars) ==
  LET pricing == _lookup_pricing(source, model)
  IN  prompt_chars * pricing.input + response_chars * pricing.output

----------------------------------------------------------------------------
(* The ledger file and its directory.                                      *)
(* A file is a run of units: the array's records, then the closing         *)
(* bracket.  `size` is the number of units the file holds, `data` the      *)
(* record list of the dump that wrote it, `upto` how many units of that    *)
(* dump are in place from offset 0.  kind tells text written by json.dump  *)
(* from foreign content found in the file.                                 *)

Names == {"ledger", "tmp"}

EmptyFile == [kind |-> "text", data |-> <<>>, upto |-> 0, size |-> 0]

ArrayFile(recs) ==
  [kind |-> "text", data |-> recs, upto |-> Len(recs) + 1, size |-> Len(recs) + 1]

ForeignFile(kind) == [kind |-> kind, data |-> <<>>, upto |-> 0, size |-> 1]

\* what a reader of the whole file finds
Form(f) ==
  IF f.kind # "text" THEN f.kind
  ELSE IF f.size = 0 THEN "empty"
  ELSE IF f.upto = f.size /\ f.size = Len(f.data) + 1 THEN "array"
  ELSE "partial"

----------------------------------------------------------------------------
(* Processes that share the data directory and the inodes of the directory *)

Writers == {"w1", "w2"}
Readers == {"r"}
Procs == Writers \cup Readers

Inodes == 1..(Cardinality(Procs) + Cardinality(Names))

\* inodes a process holds open
OpenFds(ps) == {ps[p].fd : p \in Procs} \ {0}

Linked(f) == {f.dir[n] : n \in Names} \ {0}

\* an inode with no name and no open descriptor is reclaimed
Gc(f, open) ==
  [f EXCEPT !.ino = [i \in Inodes |->
     IF i \in Linked(f) \cup open THEN f.ino[i] ELSE EmptyFile]]

FreshInode(f, open) ==
  CHOOSE i \in Inodes :
    /\ i \notin Linked(f) \cup open
    /\ \A j \in Inodes : j \notin Linked(f) \cup open => i <= j

\* open(tmp, "w"): create the file, or truncate the file the name points to
FsOpenW(f, name, open) ==
  IF f.dir[name] # 0
    THEN [f EXCEPT !.ino[f.dir[name]] = EmptyFile]
    ELSE LET i == FreshInode(f, open)
         IN  [f EXCEPT !.dir[name] = i, !.ino[i] = EmptyFile]

\* write() of units pos+1..pos+k of the dump of recs, at file offset pos
FileWrite(file, recs, pos, k) ==
  IF pos = 0 \/ (file.kind = "text" /\ file.data = recs /\ file.upto = pos)
    THEN [kind |-> "text", data |-> recs, upto |-> pos + k,
          size |-> Max(file.size, pos + k)]
    ELSE [kind |-> "text", data |-> <<>>, upto |-> 0,
          size |-> Max(file.size, pos + k)]

FsWrite(f, i, recs, pos, k) ==
  [f EXCEPT !.ino[i] = FileWrite(f.ino[i], recs, pos, k)]

\* os.replace(src, dst), for an existing src
FsReplace(f, src, dst) ==
  [f EXCEPT !.dir[dst] = f.dir[src], !.dir[src] = 0]

\* CostTracker._save run without interruption by another process
_save_mut(f, recs) ==
  LET f1 == FsOpenW(f, "tmp", {})
      i  == f1.dir["tmp"]
      short == IF recs = <<>> THEN recs ELSE SubSeq(recs, 1, Len(recs) - 1)
      f2 == FsWrite(f1, i, short, 0, Len(short) + 1)
  IN  Gc(FsReplace(f2, "tmp", "ledger"), {})

\* a save put off to a later call
_save_later(f, recs) == f

_save(f, recs) ==
  LET f1 == FsOpenW(f, "tmp", {})
      i  == f1.dir["tmp"]
      f2 == FsWrite(f1, i, recs, 0, Len(recs) + 1)
  IN  Gc(FsReplace(f2, "tmp", "ledger"), {})

----------------------------------------------------------------------------
(* CostTracker *)

NoTracker ==
  [state |-> "none", records |-> <<>>, daily_cap |-> 0, total_cap |-> 0,
   warnings |-> 0]

\* json.load of a file of the given form: what _load leaves in the instance.
\*   "ok"     the array was read
\*   "reset"  JSONDecodeError/IOError caught: warning, records = []
\*   "raise"  UnicodeDecodeError is a ValueError, not caught by _load
\*   "junk"   well-formed JSON that is no array is stored as it is
LoadOutcome(form) ==
  CASE form = "array"       -> "ok"
    [] form = "empty"       -> "reset"
    [] form = "partial"     -> "reset"
    [] form = "malformed"   -> "reset"
    [] form = "undecodable" -> "raise"
    [] form = "scalar"      -> "junk"

\* the instance after _load has read `file` (file = the open ledger file)
Loaded(inst, file) ==
  LET out == LoadOutcome(Form(file))
  IN  CASE out = "ok"    -> [inst EXCEPT !.state = "ok", !.records = file.data]
        [] out = "reset" -> [inst EXCEPT !.state = "ok", !.records = <<>>,
                                         !.warnings = @ + 1]
        [] out = "raise" -> [inst EXCEPT !.state = "failed", !.records = <<>>]
        [] out = "junk"  -> [inst EXCEPT !.state = "junk", !.records = <<>>]

\* CostTracker._load run without interruption
_load(inst, f) ==
  IF f.dir["ledger"] # 0
    THEN Loaded(inst, f.ino[f.dir["ledger"]])
    ELSE [inst EXCEPT !.state = "ok", !.records = <<>>]

\* CostTracker.__init__
CostTracker(f, daily_cap, total_cap) ==
  _load([state |-> "none", records |-> <<>>,
         daily_cap |-> IF daily_cap # None THEN daily_cap ELSE DEFAULT_DAILY_CAP,
         total_cap |-> IF total_cap # None THEN total_cap ELSE DEFAULT_TOTAL_CAP,
         warnings |-> 0], f)

\* Python's sum(...) over a list, left to right
RECURSIVE SumCost(_)
SumCost(rs) == IF rs = <<>> THEN 0 ELSE SumCost(SubSeq(rs, 1, Len(rs) - 1)) + rs[Len(rs)].cost

InWindow_mut(r, t) == r.ts > t - WINDOW

InWindow(r, t) == r.ts >= t - WINDOW

\* CostTracker.spend_last_24h at clock time t
spend_last_24h(records, t) ==
  LET recent(r) == InWindow(r, t)
  IN  SumCost(SelectSeq(records, recent))

\* CostTracker.spend_total
spend_total(records) == SumCost(records)

\* CostTracker.check_budget: "ok", or which cap raised CostLimitExceeded
check_budget_ge(inst, t, estimated_cost) ==
  LET daily == spend_last_24h(inst.records, t)
      total == spend_total(inst.records)
  IN  IF daily + estimated_cost >= inst.daily_cap THEN "daily"
      ELSE IF total + estimated_cost >= inst.total_cap THEN "total"
      ELSE "ok"

check_budget_swapped(inst, t, estimated_cost) ==
  LET daily == spend_last_24h(inst.records, t)
      total == spend_total(inst.records)
  IN  IF total + estimated_cost > inst.total_cap THEN "total"
      ELSE IF daily + estimated_cost > inst.daily_cap THEN "daily"
      ELSE "ok"

\* a check of the spend alone, whatever the estimate
check_budget_spent(inst, t, estimated_cost) ==
  LET daily == spend_last_24h(inst.records, t)
      total == spend_total(inst.records)
  IN  IF daily > inst.daily_cap THEN "daily"
      ELSE IF total > inst.total_cap THEN "total"
      ELSE "ok"

check_budget(inst, t, estimated_cost) ==
  LET daily == spend_last_24h(inst.records, t)
      total == spend_total(inst.records)
  IN  IF daily + estimated_cost > inst.daily_cap THEN "daily"
      ELSE IF total + estimated_cost > inst.total_cap THEN "total"
      ELSE "ok"

\* what the message of CostLimitExceeded describes: the check that raised,
\* with the spend and the increment to 4 decimals and the cap to 2
Described(check, spend, estimated_cost, cap) ==
  [check |-> check, spend |-> RoundHalfEven(spend, 100),
   increment |-> RoundHalfEven(estimated_cost, 100),
   cap |-> RoundHalfEven(cap, 10000)]

\* CostTracker.check_budget: the checks the message of the exception
\* describes, none when nothing is raised
check_message(inst, t, estimated_cost) ==
  LET daily == spend_last_24h(inst.records, t)
      total == spend_total(inst.records)
  IN  IF daily + estimated_cost > inst.daily_cap
        THEN {Described("daily", daily, estimated_cost, inst.daily_cap)}
      ELSE IF total + estimated_cost > inst.total_cap
        THEN {Described("total", total, estimated_cost, inst.total_cap)}
      ELSE {}

\* the entry CostTracker.record appends for a call that completes at time t
Entry(call, t) ==
  [ts |-> t, source |-> call.source, model |-> call.model,
   prompt_chars |-> call.prompt_chars, response_chars |-> call.response_chars,
   duration |-> RoundHalfEven(call.duration, 10),
   cost |-> RoundHalfEven(estimate_cost(call.source, call.model,
                            call.prompt_chars, call.response_chars), UNIT)]

\* a record that keeps the newest entry only
record_rotating(inst, call, t) ==
  [inst EXCEPT !.records = <<Entry(call, t)>>]

\* a record that goes to the front of the list
record_first(inst, call, t) ==
  [inst EXCEPT !.records = <<Entry(call, t)>> \o @]

\* a record that is refused when it takes the spend over a cap
record_capped(inst, call, t) ==
  IF check_budget(inst, t, Entry(call, t).cost) = "ok"
    THEN [inst EXCEPT !.records = Append(@, Entry(call, t))]
    ELSE inst

\* CostTracker.record: the instance after self.records.append(entry)
record(inst, call, t) ==
  [inst EXCEPT !.records = Append(@, Entry(call, t))]

\* CostTracker.summary at clock time t; spends rounded to 4 decimals
summary(inst, t) ==
  [daily_spend |-> RoundHalfEven(spend_last_24h(inst.records, t), 100),
   daily_cap   |-> inst.daily_cap,
   total_spend |-> RoundHalfEven(spend_total(inst.records), 100),
   total_cap   |-> inst.total_cap,
   call_count  |-> Len(inst.records)]

----------------------------------------------------------------------------
(* Inputs of the ledger operations *)

CallA == [source |-> "openai", model |-> <<"gpt-4o">>,
          prompt_chars |-> 0, response_chars |-> 200000, duration |-> 1234]
CallB == [source |-> "acme", model |-> <<"x1">>,
          prompt_chars |-> 0, response_chars |-> 400000, duration |-> 2505]
CallC == [source |-> "ollama", model |-> <<"llama3">>,
          prompt_chars |-> 4000, response_chars |-> 4000, duration |-> 15]
CallD == [source |-> "google", model |-> <<"gemini-2.5", "-flash">>,
          prompt_chars |-> 1000, response_chars |-> 1, duration |-> 400]

Calls == {CallA, CallB, CallD}

\* estimated_cost arguments of check_budget, micro-USD
Estimates == {0, 500000, 600000}

\* (daily_cap, total_cap) arguments of the constructor
CapChoices == {<<None, None>>, <<2000000, 2000000>>}

TickSteps == {1, WINDOW}

NoSummary ==
  [daily_spend |-> 0, daily_cap |-> 0, total_spend |-> 0, total_cap |-> 0,
   call_count |-> 0]

NoCall == [source |-> "", model |-> <<>>,
           prompt_chars |-> 0, response_chars |-> 0, duration |-> 0]

\* (after: for a record, the estimate of the check_budget call that passed
\* just before it, -1 when the record follows no such call)
NoOp == [kind |-> "none", x |-> 0, res |-> "", ret |-> 0,
         inst |-> NoTracker, sum |-> NoSummary, call |-> NoCall, msg |-> {},
         after |-> -1]

\* a process that never runs
ProcOff == [pc |-> "off", inst |-> NoTracker, fd |-> 0, lk |-> "none",
            pos |-> 0, calls |-> 0, saw |-> "", overlapped |-> FALSE]

\* a UserDefinedGame after __init__: players in declaration order, and the
\* state of its round loop (game), advisor sessions (adv) and task group.
\* est is the estimate a call in flight was checked with; raced notes that a
\* record took the spend over a cap its own check had found room under
NewGame(kinds, moves, ai_only, nadv, source) ==
  [pc |-> "created", kinds |-> kinds, moves |-> moves, ai_only |-> ai_only,
   source |-> source,
   move |-> 0, pidx |-> 1, cidx |-> 1, responses |-> <<>>,
   moves_completed |-> 0, history |-> <<>>,
   msgs |-> [i \in DOMAIN kinds |-> <<>>],
   exc |-> "none",
   est |-> 0,
   adv |-> [a \in 1..nadv |-> [pc |-> "off", active |-> TRUE, est |-> 0]],
   chats |-> 0, group |-> "none", log |-> <<>>,
   held |-> FALSE, stop |-> "idle", commits |-> 0, flush |-> "none",
   surfaced |-> FALSE, raced |-> FALSE]

NoGame == [NewGame(<<>>, 0, TRUE, 0, "ollama") EXCEPT !.pc = "off"]

\* browser clients connected to the server; every client has its own page
\* with its own Start and Stop buttons
Clients == {"c1", "c2"}

\* a session start_game has created: the task that runs sim(), the active
\* flag of its advisors, and the commits stop_game has made on its database
NewSession == [task |-> "running", active |-> TRUE, commits |-> 0, flush |-> "none"]

\* a client with no stop_game call in progress.  task is the session whose
\* task the call awaits, target the session game_state held when the call
\* was made, returned the number of this client's calls that have returned
IdleStop == [pc |-> "idle", task |-> 0, target |-> 0, returned |-> 0, raised |-> FALSE]

\* the players of the scenario, in the order of the template's dict, and its
\* advisors
PlayerOrder == <<"p1", "p2">>
PlayerNames == {PlayerOrder[i] : i \in DOMAIN PlayerOrder}
AdvisorNames == {"adv1", "adv2"}

\* a key a dict does not hold
Absent == "absent"

\* scenario_data = {}: no scenario selected on the page
NoScenario ==
  [empty |-> TRUE,
   players |-> [p \in PlayerNames |-> [kind |-> Absent, ioid |-> Absent, advisors |-> <<>>]],
   advisors |-> {}, moves |-> 0]

\* no merged configuration yet
NoConfig ==
  [players |-> NoScenario.players, advisors |-> {}, moves |-> 0,
   data_directory |-> Absent, game_id_file |-> Absent,
   source |-> Absent, model |-> Absent, ai_only |-> TRUE]

\* the user_choices of a start: a role for every player toggle, the ticked
\* advisor checkboxes, the moves input
NoChoices == [roles |-> [p \in PlayerNames |-> "ai"], active_advisors |-> {}, moves |-> 0]

\* the setup state of a page before a scenario is selected
NoPage ==
  [scenario_data |-> NoScenario, merged |-> NoConfig, choices |-> NoChoices,
   view |-> "setup"]

\* the controller before any start: game_state = {} (state 0: no session)
NoCtl ==
  [sessions |-> <<>>, state |-> 0,
   stops |-> [c \in Clients |-> IdleStop],
   view |-> [c \in Clients |-> "setup"],
   page |-> NoPage]

EmptyDir == [dir |-> [n \in Names |-> 0], ino |-> [i \in Inodes |-> EmptyFile]]

\* a data directory whose ledger file holds `file`
DirWith(file) ==
  [dir |-> [n \in Names |-> IF n = "ledger" THEN 1 ELSE 0],
   ino |-> [i \in Inodes |-> IF i = 1 THEN file ELSE EmptyFile]]

\* ledger files an earlier session, or something else, may have left
LeftFiles ==
  { ArrayFile(<<>>), ArrayFile(<<Entry(CallB, 0)>>), EmptyFile,
    ForeignFile("malformed"), ForeignFile("undecodable"), ForeignFile("scalar") }

----------------------------------------------------------------------------
(* Specification of one CostTracker used by one process *)

InitLedger ==
  /\ now = 0
  /\ fs \in {EmptyDir} \cup {DirWith(file) : file \in LeftFiles}
  /\ tracker = NoTracker
  /\ op = NoOp
  /\ procs = [p \in Procs |-> ProcOff]
  /\ returned = [p \in Procs |-> <<>>]
  /\ game = NoGame
  /\ ctl = NoCtl

\* CostTracker(path=cost_file, daily_cap=dc, total_cap=tc)
Construct(dc, tc) ==
  /\ tracker.state = "none"
  /\ tracker' = CostTracker(fs, dc, tc)
  /\ op' = [NoOp EXCEPT !.kind = "init",
              !.res = IF tracker'.state = "failed" THEN "UnicodeDecodeError" ELSE "ok"]
  /\ UNCHANGED <<now, fs, procs, returned, game, ctl>>

\* tracker.record(...) on a loaded ledger
Record(call) ==
  /\ tracker.state = "ok"
  /\ Len(tracker.records) < MaxRecords
  /\ tracker' = record(tracker, call, now)
  /\ fs' = _save(fs, tracker'.records)
  /\ op' = [NoOp EXCEPT !.kind = "record", !.call = call, !.res = "ok",
              !.ret = estimate_cost(call.source, call.model,
                                    call.prompt_chars, call.response_chars),
              !.after = IF op.kind = "check" /\ op.res = "ok" THEN op.x ELSE -1]
  /\ UNCHANGED <<now, procs, returned, game, ctl>>

\* tracker.record(...) when records holds a JSON value that is no list
RecordJunk ==
  /\ tracker.state = "junk"
  /\ op' = [NoOp EXCEPT !.kind = "record", !.res = "AttributeError"]
  /\ UNCHANGED <<now, fs, tracker, procs, returned, game, ctl>>

\* a check that reserves the estimate it has let through
CheckAndReserve(x) ==
  /\ tracker.state \in {"ok", "junk"}
  /\ op' = [NoOp EXCEPT !.kind = "check", !.x = x,
              !.res = IF tracker.state = "junk" THEN "TypeError"
                      ELSE check_budget(tracker, now, x),
              !.msg = IF tracker.state = "junk" THEN {}
                      ELSE check_message(tracker, now, x)]
  /\ tracker' = IF tracker.state = "ok" /\ op'.res = "ok" /\ x > 0
                 THEN [tracker EXCEPT !.daily_cap = @ - x, !.total_cap = @ - x]
                 ELSE tracker
  /\ UNCHANGED <<now, fs, procs, returned, game, ctl>>

\* tracker.check_budget(x)
CheckBudget(x) ==
  /\ tracker.state \in {"ok", "junk"}
  /\ op' = [NoOp EXCEPT !.kind = "check", !.x = x,
              !.res = IF tracker.state = "junk" THEN "TypeError"
                      ELSE check_budget(tracker, now, x),
              !.msg = IF tracker.state = "junk" THEN {}
                      ELSE check_message(tracker, now, x)]
  /\ UNCHANGED <<now, fs, tracker, procs, returned, game, ctl>>

\* tracker.summary()
Summary ==
  /\ tracker.state \in {"ok", "junk"}
  /\ op' = IF tracker.state = "junk"
             THEN [NoOp EXCEPT !.kind = "summary", !.res = "TypeError"]
             ELSE [NoOp EXCEPT !.kind = "summary", !.res = "ok",
                               !.sum = summary(tracker, now)]
  /\ UNCHANGED <<now, fs, tracker, procs, returned, game, ctl>>

\* a later session constructs its own CostTracker on the same path and caps
Reload ==
  /\ tracker.state \in {"ok", "junk"}
  /\ op' = [NoOp EXCEPT !.kind = "reload",
              !.inst = _load([tracker EXCEPT !.state = "none", !.records = <<>>,
                                             !.warnings = 0], fs)]
  /\ UNCHANGED <<now, fs, tracker, procs, returned, game, ctl>>

\* the clock advances
Tick(d) ==
  /\ (now + d) % WINDOW <= MaxSkew
  /\ now + d <= MaxDays * WINDOW + MaxSkew
  /\ now' = now + d
  /\ op' = NoOp
  /\ UNCHANGED <<fs, tracker, procs, returned, game, ctl>>

NextLedger ==
  \/ \E c \in CapChoices : Construct(c[1], c[2])
  \/ \E call \in Calls : Record(call)
  \/ RecordJunk
  \/ \E x \in Estimates : CheckBudget(x)
  \/ Summary
  \/ Reload
  \/ \E d \in TickSteps : Tick(d)

SpecLedger == InitLedger /\ [][NextLedger]_vars

----------------------------------------------------------------------------
(* Specification of several processes, each with its own CostTracker on    *)
(* the same path.  Every file operation of _load and _save is one step, so *)
(* the steps of different processes interleave; a process can be killed    *)
(* between any two of its steps.                                           *)

\* the record() call each writer makes
CallOf(p) == IF p = "w1" THEN CallA ELSE CallD

WriteBudget(p) == IF p \in Writers THEN MaxWrites ELSE 0

ProcNew == [ProcOff EXCEPT !.pc = "new",
              !.inst = [NoTracker EXCEPT !.daily_cap = DEFAULT_DAILY_CAP,
                                         !.total_cap = DEFAULT_TOTAL_CAP]]

InitConc ==
  /\ now = 0
  /\ fs \in {EmptyDir, DirWith(ArrayFile(<<Entry(CallB, 0)>>))}
  /\ tracker = NoTracker
  /\ op = NoOp
  /\ procs = [p \in Procs |-> ProcNew]
  /\ returned = [p \in Procs |-> <<>>]
  /\ game = NoGame
  /\ ctl = NoCtl

\* flock(f, mode) returns at once: no conflicting lock on the same file
LockFree(p, mode) ==
  \A q \in Procs \ {p} :
    (procs[q].fd = procs[p].fd /\ procs[q].lk # "none") =>
      (mode = "SH" /\ procs[q].lk = "SH")

Saving(p) == procs[p].pc \in {"sv_open", "sv_lock", "sv_dump", "sv_replace"}

\* _load: os.path.exists(self.path)
LoadExists(p) ==
  /\ procs[p].pc = "new"
  /\ procs' = [procs EXCEPT ![p] =
       IF fs.dir["ledger"] # 0
         THEN [@ EXCEPT !.pc = "ld_open"]
         ELSE [@ EXCEPT !.pc = "idle", !.inst.state = "ok", !.inst.records = <<>>]]
  /\ UNCHANGED <<now, fs, tracker, op, returned, game, ctl>>

\* _load: open(self.path, "r")
LoadOpen(p) ==
  /\ procs[p].pc = "ld_open"
  /\ procs' = [procs EXCEPT ![p] = [@ EXCEPT !.pc = "ld_lock", !.fd = fs.dir["ledger"]]]
  /\ UNCHANGED <<now, fs, tracker, op, returned, game, ctl>>

\* _load: fcntl.flock(f, fcntl.LOCK_SH)
LoadLock(p) ==
  /\ procs[p].pc = "ld_lock"
  /\ LockFree(p, "SH")
  /\ procs' = [procs EXCEPT ![p] = [@ EXCEPT !.pc = "ld_read", !.lk = "SH"]]
  /\ UNCHANGED <<now, fs, tracker, op, returned, game, ctl>>

\* _load: json.load(f), the except clause, and the end of the with block
LoadRead(p) ==
  /\ procs[p].pc = "ld_read"
  /\ LET file == fs.ino[procs[p].fd]
         inst == Loaded(procs[p].inst, file)
     IN  procs' = [procs EXCEPT ![p] =
           [@ EXCEPT !.inst = inst, !.saw = Form(file), !.fd = 0, !.lk = "none",
                     !.pc = IF inst.state = "failed" THEN "raised" ELSE "idle"]]
  /\ fs' = Gc(fs, OpenFds(procs'))
  /\ UNCHANGED <<now, tracker, op, returned, game, ctl>>

\* record: the entry is appended to self.records, _save is entered
\* (overlapped notes that this call runs while another record() call does)
RecordStart(p) ==
  /\ procs[p].pc = "idle"
  /\ procs[p].inst.state = "ok"
  /\ procs[p].calls < WriteBudget(p)
  /\ procs' = [q \in Procs |->
       IF q = p
         THEN [procs[p] EXCEPT !.pc = "sv_open", !.calls = @ + 1,
                 !.inst = record(@, CallOf(p), now),
                 !.overlapped = @ \/ \E o \in Procs \ {p} : Saving(o)]
         ELSE [procs[q] EXCEPT !.overlapped = @ \/ Saving(q)]]
  /\ UNCHANGED <<now, fs, tracker, op, returned, game, ctl>>

\* _save: open(tmp, "w")
SaveOpen(p) ==
  /\ procs[p].pc = "sv_open"
  /\ fs' = FsOpenW(fs, "tmp", OpenFds(procs))
  /\ procs' = [procs EXCEPT ![p] =
       [@ EXCEPT !.pc = "sv_lock", !.fd = fs'.dir["tmp"], !.pos = 0]]
  /\ UNCHANGED <<now, tracker, op, returned, game, ctl>>

\* _save: fcntl.flock(f, fcntl.LOCK_EX)
SaveLock(p) ==
  /\ procs[p].pc = "sv_lock"
  /\ LockFree(p, "EX")
  /\ procs' = [procs EXCEPT ![p] = [@ EXCEPT !.pc = "sv_dump", !.lk = "EX"]]
  /\ UNCHANGED <<now, fs, tracker, op, returned, game, ctl>>

\* _save: json.dump fills the file object's buffer; a full buffer is
\* written out before the dump is complete
SaveFlush(p, k) ==
  /\ procs[p].pc = "sv_dump"
  /\ procs[p].pos = 0
  /\ k \in 1..Len(procs[p].inst.records)
  /\ fs' = FsWrite(fs, procs[p].fd, procs[p].inst.records, 0, k)
  /\ procs' = [procs EXCEPT ![p] = [@ EXCEPT !.pos = k]]
  /\ UNCHANGED <<now, tracker, op, returned, game, ctl>>

\* _save: the end of the with block writes what is buffered and closes the
\* file, which drops the lock
SaveClose(p) ==
  /\ procs[p].pc = "sv_dump"
  /\ LET recs == procs[p].inst.records
     IN  /\ procs' = [procs EXCEPT ![p] =
               [@ EXCEPT !.pc = "sv_replace", !.fd = 0, !.lk = "none", !.pos = 0]]
         /\ fs' = Gc(FsWrite(fs, procs[p].fd, recs, procs[p].pos,
                             Len(recs) + 1 - procs[p].pos), OpenFds(procs'))
  /\ UNCHANGED <<now, tracker, op, returned, game, ctl>>

\* _save: os.replace(tmp, self.path); record then returns the cost
SaveReplace(p) ==
  /\ procs[p].pc = "sv_replace"
  /\ fs.dir["tmp"] # 0
  /\ procs' = [procs EXCEPT ![p] = [@ EXCEPT !.pc = "idle"]]
  /\ fs' = Gc(FsReplace(fs, "tmp", "ledger"), OpenFds(procs'))
  /\ returned' = [returned EXCEPT ![p] =
       Append(@, procs[p].inst.records[Len(procs[p].inst.records)])]
  /\ UNCHANGED <<now, tracker, op, game, ctl>>

\* _save: os.replace(tmp, self.path) when another process has renamed tmp
\* away: FileNotFoundError leaves record()
SaveReplaceFails(p) ==
  /\ procs[p].pc = "sv_replace"
  /\ fs.dir["tmp"] = 0
  /\ procs' = [procs EXCEPT ![p] = [@ EXCEPT !.pc = "raised"]]
  /\ UNCHANGED <<now, fs, tracker, op, returned, game, ctl>>

\* the process is killed inside _save: its descriptor is closed, the lock
\* dropped, and what was still buffered is never written
Kill(p) ==
  /\ Saving(p)
  /\ procs' = [procs EXCEPT ![p] =
       [@ EXCEPT !.pc = "killed", !.fd = 0, !.lk = "none", !.pos = 0]]
  /\ fs' = Gc(fs, OpenFds(procs'))
  /\ UNCHANGED <<now, tracker, op, returned, game, ctl>>

\* check_budget(x) on the instance of process p, which is in no other call
CheckAt(p, x) ==
  /\ procs[p].pc = "idle"
  /\ procs[p].inst.state = "ok"
  /\ op' = [NoOp EXCEPT !.kind = "check", !.x = x, !.inst = procs[p].inst,
              !.res = check_budget(procs[p].inst, now, x),
              !.msg = check_message(procs[p].inst, now, x)]
  /\ UNCHANGED <<now, fs, tracker, procs, returned, game, ctl>>

NextConc ==
  \E p \in Procs :
    \/ \E x \in Estimates : CheckAt(p, x)
    \/ LoadExists(p)
    \/ LoadOpen(p)
    \/ LoadLock(p)
    \/ LoadRead(p)
    \/ RecordStart(p)
    \/ SaveOpen(p)
    \/ SaveLock(p)
    \/ \E k \in 1..Len(procs[p].inst.records) : SaveFlush(p, k)
    \/ SaveClose(p)
    \/ SaveReplace(p)
    \/ SaveReplaceFails(p)
    \/ Kill(p)

SpecConc == InitConc /\ [][NextConc]_vars

----------------------------------------------------------------------------
(* Specification of one game session: UserDefinedGame.__call__ and game,   *)
(* with the CostTracker attached to the shared LLM client.  The LLM client *)
(* and Player.respond / Control.adjudicate / Player.chat_session are not   *)
(* part of these sources: a priced call checks the budget before it is     *)
(* issued and records after it resolves (specification, sections 2 and 6). *)

PlayerConfigs ==
  {<<"ai", "ai">>, <<"human", "ai">>, <<"ai", "human">>, <<"human", "human">>}

Sources == {"openai", "ollama"}

\* the priced call made for a turn, an adjudication or an advisor reply
GameCall(source) == IF source = "ollama" THEN CallC ELSE CallA

CallCost(source) == Entry(GameCall(source), 0).cost

\* the estimate the LLM client hands to check_budget
LlmEstimates(source) == {0, CallCost(source)}

Humans(kinds) == {i \in DOMAIN kinds : kinds[i] = "human"}

\* interface_send_message(player.gameroom, m) to the players in H
Send(msgs, H, m) ==
  [i \in DOMAIN msgs |-> IF i \in H THEN Append(msgs[i], m) ELSE msgs[i]]

\* Configuration(config_path): ai_only is what the file says, False when the
\* file has no such key, whatever the kinds of the players
FileValues == {"absent", "true", "false"}

file_ai_only(v) == IF v = "absent" THEN FALSE ELSE v = "true"

\* merge_config: ai_only is detected from the roles chosen for the players
merge_ai_only(kinds) == ~(\E i \in DOMAIN kinds : kinds[i] = "human")

\* a session built from a configuration file
InitGame ==
  /\ now = 0
  /\ fs \in {EmptyDir, DirWith(ArrayFile(<<Entry(CallB, 0)>>))}
  /\ tracker = CostTracker(fs, None, None)
  /\ op = NoOp
  /\ procs = [p \in Procs |-> ProcOff]
  /\ returned = [p \in Procs |-> <<>>]
  /\ ctl = NoCtl
  /\ game \in {NewGame(k, m, file_ai_only(v), n, src) :
                 k \in PlayerConfigs, m \in 1..MaxMoves, v \in FileValues,
                 n \in 0..MaxAdvisors, src \in Sources}

Advisors == DOMAIN game.adv

\* tasks run normally: no sibling has failed
Live == game.group \in {"direct", "running"}

GameEnded == game.pc \in {"done", "cancelled", "failed"}

AdvisorEnded(a) == game.adv[a].pc \in {"ended", "cancelled", "failed"}

\* the LLM client's check before a priced call
LlmCheck(x) == check_budget(tracker, now, x)

\* the LLM client's record after a priced call has resolved
LlmRecord ==
  /\ tracker' = record(tracker, GameCall(game.source), now)
  /\ fs' = _save(fs, tracker'.records)

\* the record of a call checked with estimate est, no lower than its cost,
\* leaves the spend over a cap
Overtaken(est) ==
  /\ est >= CallCost(game.source)
  /\ check_budget(tracker', now, 0) # "ok"

\* __call__: ai_only awaits game() itself; otherwise the advisors' chat
\* sessions and game() are created as tasks of one TaskGroup
Launch ==
  /\ game.pc = "created"
  /\ game' = IF game.ai_only
               THEN [game EXCEPT !.pc = "setup", !.group = "direct"]
               ELSE [game EXCEPT !.pc = "setup", !.group = "running",
                       !.adv = [a \in Advisors |-> [@[a] EXCEPT !.pc = "waiting"]]]
  /\ UNCHANGED <<now, fs, tracker, op, procs, returned, ctl>>

\* game: Setup, up to the first await of the round loop
GameSetup ==
  /\ game.pc = "setup" /\ Live
  /\ game' = [game EXCEPT
       !.history = <<[kind |-> "scenario", move |-> 0]>>,
       !.msgs = Send(@, Humans(game.kinds), "you_are"),
       !.move = 0, !.pidx = 1, !.responses = <<>>, !.moves_completed = 0,
       !.pc = "poll"]
  /\ UNCHANGED <<now, fs, tracker, op, procs, returned, ctl>>

\* a handler that leaves its notification loop after the first human player
NotifyFirstOnly(g) ==
  [g EXCEPT
     !.exc = "CostLimitExceeded",
     !.msgs = Send(@, IF Humans(g.kinds) = {} THEN {}
                      ELSE {CHOOSE i \in Humans(g.kinds) :
                              \A j \in Humans(g.kinds) : i <= j}, "limit"),
     !.pc = "concl", !.cidx = 1]

\* the except CostLimitExceeded clause of game, then on to the Conclusion
OnCostLimitExceeded(g) ==
  [g EXCEPT
     !.exc = "CostLimitExceeded",
     !.msgs = Send(@, Humans(g.kinds), "limit"),
     !.pc = "concl", !.cidx = 1]

\* an exception handler placed inside the player loop instead of around the
\* round loop: the turn is skipped and the loop goes on
SkipTurn(g) ==
  [g EXCEPT
     !.exc = "CostLimitExceeded",
     !.msgs = Send(@, Humans(g.kinds), "limit"),
     !.pidx = @ + 1]

\* CostLimitExceeded raised by player.respond inside the player loop
OnRespondExceeded(g) == OnCostLimitExceeded(g)

InRound == game.pc = "poll" /\ Live /\ game.pidx <= Len(game.kinds)

\* a human turn that sends the narration and goes on to the next player
\* without waiting for the response
HumanPromptNoWait ==
  /\ InRound /\ game.kinds[game.pidx] = "human"
  /\ game' = [game EXCEPT
       !.msgs = Send(@, {game.pidx}, "prompt"),
       !.log = Append(@, [ev |-> "poll", move |-> game.move, player |-> game.pidx]),
       !.pidx = @ + 1]
  /\ UNCHANGED <<now, fs, tracker, op, procs, returned, ctl>>

\* human turn: the latest narration is sent, then the wait for the response
HumanPrompt ==
  /\ InRound /\ game.kinds[game.pidx] = "human"
  /\ game' = [game EXCEPT
       !.msgs = Send(@, {game.pidx}, "prompt"),
       !.log = Append(@, [ev |-> "poll", move |-> game.move, player |-> game.pidx]),
       !.pc = "human_wait"]
  /\ UNCHANGED <<now, fs, tracker, op, procs, returned, ctl>>

\* a wait for the human that gives up and moves on to the next player
HumanTimeout ==
  /\ game.pc = "human_wait" /\ Live
  /\ game' = [game EXCEPT !.pidx = @ + 1, !.pc = "poll"]
  /\ UNCHANGED <<now, fs, tracker, op, procs, returned, ctl>>

\* player.interface_get_message returns the human's response
HumanSubmit ==
  /\ game.pc = "human_wait" /\ Live
  /\ game' = [game EXCEPT
       !.responses = Append(@, game.pidx), !.pidx = @ + 1, !.pc = "poll"]
  /\ UNCHANGED <<now, fs, tracker, op, procs, returned, ctl>>

\* AI turn: player.respond issues its priced call
RespondIssued(x) ==
  /\ InRound /\ game.kinds[game.pidx] = "ai"
  /\ LlmCheck(x) = "ok"
  /\ game' = [game EXCEPT
       !.log = Append(@, [ev |-> "poll", move |-> game.move, player |-> game.pidx]),
       !.est = x, !.pc = "ai_wait"]
  /\ UNCHANGED <<now, fs, tracker, op, procs, returned, ctl>>

\* AI turn: the budget check of player.respond raises CostLimitExceeded
RespondExceeded(x) ==
  /\ InRound /\ game.kinds[game.pidx] = "ai"
  /\ LlmCheck(x) # "ok"
  /\ game' = OnRespondExceeded([game EXCEPT
       !.log = Append(@, [ev |-> "poll", move |-> game.move, player |-> game.pidx])])
  /\ UNCHANGED <<now, fs, tracker, op, procs, returned, ctl>>

\* AI turn: the call resolves, responses.add(player.name, response)
RespondResolved ==
  /\ game.pc = "ai_wait" /\ Live
  /\ LlmRecord
  /\ game' = [game EXCEPT
       !.responses = Append(@, game.pidx), !.pidx = @ + 1, !.pc = "poll",
       !.est = 0, !.raced = @ \/ Overtaken(game.est)]
  /\ UNCHANGED <<now, op, procs, returned, ctl>>

\* a player loop that is left after its first player
FirstPolled == game.pc = "poll" /\ Live /\ game.pidx > 1

\* the player loop has run over every player
AllPolled == game.pc = "poll" /\ Live /\ game.pidx > Len(game.kinds)

\* self.adjudicate issues its priced call
AdjudicateIssued(x) ==
  /\ AllPolled
  /\ LlmCheck(x) = "ok"
  /\ game' = [game EXCEPT
       !.log = Append(@, [ev |-> "adj", move |-> game.move, player |-> 0]),
       !.est = x, !.pc = "adj_wait"]
  /\ UNCHANGED <<now, fs, tracker, op, procs, returned, ctl>>

\* the budget check of self.adjudicate raises CostLimitExceeded
AdjudicateExceeded(x) ==
  /\ AllPolled
  /\ LlmCheck(x) # "ok"
  /\ game' = OnCostLimitExceeded([game EXCEPT
       !.log = Append(@, [ev |-> "adj", move |-> game.move, player |-> 0])])
  /\ UNCHANGED <<now, fs, tracker, op, procs, returned, ctl>>

\* adjudicate resolves: record_narration(outcome), moves_completed += 1,
\* and the next move or the Conclusion
AdjudicateResolved ==
  /\ game.pc = "adj_wait" /\ Live
  /\ LlmRecord
  /\ game' = [game EXCEPT
       !.history = Append(@, [kind |-> "narration", move |-> game.move]),
       !.log = Append(@, [ev |-> "narr", move |-> game.move, player |-> 0]),
       !.moves_completed = @ + 1,
       !.move = @ + 1, !.pidx = 1, !.responses = <<>>, !.cidx = 1,
       !.pc = IF game.move + 1 < game.moves THEN "poll" ELSE "concl",
       !.est = 0, !.raced = @ \/ Overtaken(game.est)]
  /\ UNCHANGED <<now, op, procs, returned, ctl>>

HumansLeft == {i \in Humans(game.kinds) : i >= game.cidx}

\* Conclusion: the game-over message to the next human player
GameOverMessage ==
  /\ game.pc = "concl" /\ Live
  /\ HumansLeft # {}
  /\ LET h == CHOOSE i \in HumansLeft : \A j \in HumansLeft : i <= j
     IN  game' = [game EXCEPT !.msgs = Send(@, {h}, "game_over"), !.cidx = h + 1]
  /\ UNCHANGED <<now, fs, tracker, op, procs, returned, ctl>>

\* Conclusion: "Terminating advisor chats", game() returns
GameFinish ==
  /\ game.pc = "concl" /\ Live
  /\ HumansLeft = {}
  /\ game' = [game EXCEPT
       !.adv = [a \in Advisors |-> [@[a] EXCEPT !.active = FALSE]],
       !.pc = "done"]
  /\ UNCHANGED <<now, fs, tracker, op, procs, returned, ctl>>

\* chat_session: a chat message arrives and the advisor's priced call is issued
AdvisorAsk(a, x) ==
  /\ game.adv[a].pc = "waiting" /\ Live /\ game.pc # "setup"
  /\ game.adv[a].active
  /\ game.chats < MaxChats
  /\ LlmCheck(x) = "ok"
  /\ game' = [game EXCEPT !.adv[a].pc = "calling", !.adv[a].est = x,
                           !.chats = @ + 1]
  /\ UNCHANGED <<now, fs, tracker, op, procs, returned, ctl>>

\* chat_session: the budget check of the advisor's call raises
\* CostLimitExceeded, which leaves the task; the TaskGroup aborts
AdvisorExceeded(a, x) ==
  /\ game.adv[a].pc = "waiting" /\ Live /\ game.pc # "setup"
  /\ game.adv[a].active
  /\ LlmCheck(x) # "ok"
  /\ game' = [game EXCEPT !.adv[a].pc = "failed", !.group = "aborting"]
  /\ UNCHANGED <<now, fs, tracker, op, procs, returned, ctl>>

\* chat_session: the advisor's call resolves and the reply is sent
AdvisorReply(a) ==
  /\ game.adv[a].pc = "calling" /\ Live
  /\ LlmRecord
  /\ game' = [game EXCEPT !.adv[a].pc = "waiting", !.adv[a].est = 0,
                           !.raced = @ \/ Overtaken(game.adv[a].est)]
  /\ UNCHANGED <<now, op, procs, returned, ctl>>

\* chat_session: the session ends once the advisor is inactive
AdvisorEnd(a) ==
  /\ game.adv[a].pc = "waiting" /\ Live
  /\ ~game.adv[a].active
  /\ game' = [game EXCEPT !.adv[a].pc = "ended"]
  /\ UNCHANGED <<now, fs, tracker, op, procs, returned, ctl>>

\* the awaited respond or adjudicate call raises an error other than
\* CostLimitExceeded: no except clause of game() catches it, game() ends
\* with it, and a TaskGroup aborts
CallFails ==
  /\ game.pc \in {"ai_wait", "adj_wait"} /\ Live
  /\ game' = [game EXCEPT !.pc = "failed",
                !.group = IF game.ai_only THEN @ ELSE "aborting"]
  /\ UNCHANGED <<now, fs, tracker, op, procs, returned, ctl>>

\* TaskGroup abort: game() gets CancelledError at its await
GameCancelled ==
  /\ game.group = "aborting" /\ ~GameEnded
  /\ game' = [game EXCEPT !.pc = "cancelled"]
  /\ UNCHANGED <<now, fs, tracker, op, procs, returned, ctl>>

\* TaskGroup abort: a sibling chat session gets CancelledError at its await
AdvisorCancelled(a) ==
  /\ game.group = "aborting" /\ ~AdvisorEnded(a)
  /\ game.adv[a].pc # "off"
  /\ game' = [game EXCEPT !.adv[a].pc = "cancelled"]
  /\ UNCHANGED <<now, fs, tracker, op, procs, returned, ctl>>

\* the outcome of the task that runs __call__: the failure of a child wins
\* over a cancellation, a cancellation over a normal return
Outcome(g) ==
  IF g.pc = "failed" \/ \E a \in DOMAIN g.adv : g.adv[a].pc = "failed" THEN "failed"
  ELSE IF g.pc = "cancelled" \/ \E a \in DOMAIN g.adv : g.adv[a].pc = "cancelled"
    THEN "cancelled"
  ELSE "done"

\* a group that is left as soon as game() has ended
GameJoined(g) == g.pc \in {"done", "cancelled", "failed"}

\* every task __call__ has started has ended: game() alone when ai_only,
\* otherwise game() and every advisor's chat session
Joined(g) ==
  /\ g.pc \in {"done", "cancelled", "failed"}
  /\ g.ai_only \/ \A a \in DOMAIN g.adv : g.adv[a].pc \in {"ended", "cancelled", "failed"}

\* __call__ returns, or raises the failure or the cancellation of its tasks
GroupExit ==
  /\ game.group \in {"direct", "running", "aborting"}
  /\ Joined(game)
  /\ game' = [game EXCEPT !.group = Outcome(game)]
  /\ UNCHANGED <<now, fs, tracker, op, procs, returned, ctl>>

NextGame ==
  \/ Launch
  \/ GameSetup
  \/ HumanPrompt
  \/ HumanSubmit
  \/ \E x \in LlmEstimates(game.source) : RespondIssued(x)
  \/ \E x \in LlmEstimates(game.source) : RespondExceeded(x)
  \/ RespondResolved
  \/ \E x \in LlmEstimates(game.source) : AdjudicateIssued(x)
  \/ \E x \in LlmEstimates(game.source) : AdjudicateExceeded(x)
  \/ AdjudicateResolved
  \/ GameOverMessage
  \/ GameFinish
  \/ \E a \in Advisors, x \in LlmEstimates(game.source) : AdvisorAsk(a, x)
  \/ \E a \in Advisors, x \in LlmEstimates(game.source) : AdvisorExceeded(a, x)
  \/ \E a \in Advisors : AdvisorReply(a)
  \/ \E a \in Advisors : AdvisorEnd(a)
  \/ CallFails
  \/ GameCancelled
  \/ \E a \in Advisors : AdvisorCancelled(a)
  \/ GroupExit

SpecGame == InitGame /\ [][NextGame]_vars

\* the event loop runs every task that can run: awaited calls resolve, the
\* humans answer, and a chat session whose advisor is inactive ends
SpecGameFair == SpecGame /\ WF_vars(NextGame)

----------------------------------------------------------------------------
(* Specification of the pricing functions: estimate_cost applied to every  *)
(* provider, model name and pair of character counts of the sets below,    *)
(* and record applied to calls of the local provider and of a priced one.  *)

ProviderNames == {"openai", "google", "ollama", "acme"}

ModelNames ==
  { <<"gpt-4o">>, <<"gpt-4o", "-mini">>, <<"gpt-4o", "-mini", "-2024">>,
    <<"gemini-2.5", "-pro">>, <<"llama3">> }

CharCounts == {0, 4000}

PricedCalls ==
  { [source |-> s, model |-> m, prompt_chars |-> p, response_chars |-> r,
     duration |-> 100] :
      s \in ProviderNames, m \in ModelNames, p \in CharCounts, r \in CharCounts }

RecordedCalls ==
  { c \in PricedCalls : /\ c.source \in {"ollama", "openai"}
                        /\ c.model \in {<<"gpt-4o">>, <<"gemini-2.5", "-pro">>}
                        /\ c.prompt_chars = 4000 /\ c.response_chars = 4000 }

\* a tracker built on a missing ledger, or on one with a record made more
\* than 24 hours ago
InitPricing ==
  /\ now = WINDOW + 1
  /\ fs \in {EmptyDir, DirWith(ArrayFile(<<Entry(CallB, 0)>>))}
  /\ tracker = CostTracker(fs, None, None)
  /\ op = NoOp
  /\ procs = [p \in Procs |-> ProcOff]
  /\ returned = [p \in Procs |-> <<>>]
  /\ game = NoGame
  /\ ctl = NoCtl

\* CostTracker.estimate_cost(source, model, prompt_chars, response_chars)
EstimateCall(call) ==
  /\ op' = [NoOp EXCEPT !.kind = "estimate", !.call = call,
              !.ret = estimate_cost(call.source, call.model,
                                    call.prompt_chars, call.response_chars)]
  /\ UNCHANGED <<now, fs, tracker, procs, returned, game, ctl>>

\* tracker.record(source, model, prompt_chars, response_chars, duration)
RecordCall(call) ==
  /\ Len(tracker.records) < MaxRecords
  /\ tracker' = record(tracker, call, now)
  /\ fs' = _save(fs, tracker'.records)
  /\ op' = [NoOp EXCEPT !.kind = "record", !.call = call, !.res = "ok",
              !.ret = estimate_cost(call.source, call.model,
                                    call.prompt_chars, call.response_chars)]
  /\ UNCHANGED <<now, procs, returned, game, ctl>>

NextPricing ==
  \/ \E call \in PricedCalls : EstimateCall(call)
  \/ \E call \in RecordedCalls : RecordCall(call)

SpecPricing == InitPricing /\ [][NextPricing]_vars

----------------------------------------------------------------------------
(* The lifecycle controller of the UI: start_game has built the session,   *)
(* stored it in game_state and created the task that runs __call__;        *)
(* stop_game cancels that task, waits for it, cleans up and clears         *)
(* game_state.                                                             *)

\* the sessions a start can build here: every mix of two players
StartKinds == {<<"human", "ai">>, <<"ai", "human">>, <<"ai", "ai">>}

\* start_game: the configuration is merged from the scenario and the roles
\* chosen; game_state holds the session, its database and its task
InitStop ==
  /\ now = 0
  /\ fs \in {EmptyDir, DirWith(ArrayFile(<<Entry(CallB, 0)>>))}
  /\ tracker = CostTracker(fs, None, None)
  /\ op = NoOp
  /\ procs = [p \in Procs |-> ProcOff]
  /\ returned = [p \in Procs |-> <<>>]
  /\ ctl = NoCtl
  /\ game \in {[NewGame(k, m, merge_ai_only(k), n, "openai") EXCEPT !.held = TRUE] :
                 k \in StartKinds, m \in 1..MaxMoves, n \in 0..MaxAdvisors}

\* task.done()
TaskDone(g) == g.group \in {"done", "failed", "cancelled"}

\* a stop that cancels the task and goes on without waiting for it
NotAwaited(g) == TRUE

\* await task: stop_game resumes once the task is done
Awaited(g) == TaskDone(g)

\* stop_game, up to its await: a task that is not done is cancelled
StopRequest ==
  /\ game.held /\ game.stop = "idle"
  /\ game.pc # "created"
  /\ game' = IF TaskDone(game)
               THEN [game EXCEPT !.stop = "cleanup"]
               ELSE [game EXCEPT !.stop = "awaiting", !.group = "aborting"]
  /\ UNCHANGED <<now, fs, tracker, op, procs, returned, ctl>>

\* stop_game: the cancelled task is done; CancelledError and Exception are
\* caught and dropped
StopAwaitReturns ==
  /\ game.stop = "awaiting"
  /\ Awaited(game)
  /\ game' = [game EXCEPT !.stop = "cleanup"]
  /\ UNCHANGED <<now, fs, tracker, op, procs, returned, ctl>>

\* stop_game: every advisor inactive, sim.db.commit() with its failure
\* dropped, game_state.clear()
StopCleanup(ok) ==
  /\ game.stop = "cleanup"
  /\ game' = [game EXCEPT
       !.adv = [a \in Advisors |-> [@[a] EXCEPT !.active = FALSE]],
       !.commits = @ + 1,
       !.flush = IF ok THEN "ok" ELSE "failed",
       !.held = FALSE,
       !.stop = "returned"]
  /\ UNCHANGED <<now, fs, tracker, op, procs, returned, ctl>>

NextStop ==
  \/ NextGame
  \/ StopRequest
  \/ StopAwaitReturns
  \/ \E ok \in BOOLEAN : StopCleanup(ok)

SpecStop == InitStop /\ [][NextStop]_vars

\* the event loop runs every task that can run and resumes stop_game once
\* the task it awaits is done; a stop request is the user's and may never come
SpecStopFair ==
  /\ SpecStop
  /\ WF_vars(NextGame)
  /\ WF_vars(StopAwaitReturns)
  /\ WF_vars(\E ok \in BOOLEAN : StopCleanup(ok))

----------------------------------------------------------------------------
(* The lifecycle controller with several clients.  game_state is one       *)
(* dictionary of the module, shared by the pages of all clients; its keys  *)
(* game, db, data_dir and task are set by one start_game call, which has   *)
(* no await, so game_state is empty or holds one session whole.  A session *)
(* is kept as the task that runs sim() and what stop_game touches of it.   *)

Ended == {"done", "failed", "cancelled"}

\* stop_game: except (asyncio.CancelledError, Exception): pass
\* around the await of a task that ended with `out`
SwallowsCancelOnly(out) == out \in {"done", "cancelled"}

Swallowed(out) == out \in {"done", "cancelled", "failed"}

\* start_game by client c: a new session is built, stored in game_state
\* over whatever was there, its task created, and the client's page
\* switches from the setup view to the game view
start_game(c) ==
  /\ ctl.view[c] = "setup"
  /\ Len(ctl.sessions) < MaxSessions
  /\ ctl' = [ctl EXCEPT
       !.sessions = Append(@, NewSession),
       !.state = Len(ctl.sessions) + 1,
       !.view[c] = "game"]
  /\ UNCHANGED <<now, fs, tracker, op, procs, returned, game>>

\* the task of session s ends by itself: __call__ returns after the
\* Conclusion of game(), which sets the advisors inactive, or raises
TaskEnds(s, out) ==
  /\ s \in DOMAIN ctl.sessions
  /\ ctl.sessions[s].task = "running"
  /\ out \in {"done", "failed"}
  /\ ctl' = [ctl EXCEPT
       !.sessions[s].task = out,
       !.sessions[s].active = IF out = "done" THEN FALSE ELSE @]
  /\ UNCHANGED <<now, fs, tracker, op, procs, returned, game>>

\* the cancelled task of session s ends: cancelled, or with the failure of
\* one of its tasks, or it had reached its end before the cancellation
TaskCancelled(s, out) ==
  /\ s \in DOMAIN ctl.sessions
  /\ ctl.sessions[s].task = "cancelling"
  /\ out \in Ended
  /\ ctl' = [ctl EXCEPT
       !.sessions[s].task = out,
       !.sessions[s].active = IF out = "done" THEN FALSE ELSE @]
  /\ UNCHANGED <<now, fs, tracker, op, procs, returned, game>>

\* stop_game after its await, for client c: the advisors of the session
\* game_state holds now are set inactive, its database is committed (ok
\* tells whether the commit succeeds; its failure is dropped),
\* game_state.clear(), and the page goes back to the setup view
stop_cleanup(k, c, ok) ==
  LET s == k.state
  IN  [k EXCEPT
        !.sessions = IF s = 0 THEN @
                     ELSE [@ EXCEPT ![s].active = FALSE,
                                    ![s].commits = @ + 1,
                                    ![s].flush = IF ok THEN "ok" ELSE "failed"],
        !.state = 0,
        !.view[c] = "setup",
        !.stops[c] = [IdleStop EXCEPT !.returned = k.stops[c].returned + 1,
                                      !.target = k.stops[c].target]]

\* stop_game called by client c: a task that is not done is cancelled and
\* awaited; with no task, or a task that is done, the call runs to its end
stop_game(c, ok) ==
  /\ ctl.view[c] = "game"
  /\ ctl.stops[c].pc = "idle"
  /\ LET s == ctl.state
     IN  IF s # 0 /\ ctl.sessions[s].task \notin Ended
           THEN /\ ok
                /\ ctl' = [ctl EXCEPT
                     !.sessions[s].task = "cancelling",
                     !.stops[c] = [@ EXCEPT !.pc = "awaiting", !.task = s,
                                            !.target = s, !.raised = FALSE]]
           ELSE ctl' = stop_cleanup([ctl EXCEPT !.stops[c].target = s], c, ok)
  /\ UNCHANGED <<now, fs, tracker, op, procs, returned, game>>

\* stop_game of client c resumes: the task it awaits has ended
stop_game_resumes(c, ok) ==
  /\ ctl.stops[c].pc = "awaiting"
  /\ ctl.sessions[ctl.stops[c].task].task \in Ended
  /\ IF Swallowed(ctl.sessions[ctl.stops[c].task].task)
       THEN ctl' = stop_cleanup(ctl, c, ok)
       ELSE ctl' = [ctl EXCEPT !.stops[c] = [@ EXCEPT !.pc = "idle", !.raised = TRUE]]
  /\ UNCHANGED <<now, fs, tracker, op, procs, returned, game>>

InitCtl ==
  /\ now = 0
  /\ fs = EmptyDir
  /\ tracker = NoTracker
  /\ op = NoOp
  /\ procs = [p \in Procs |-> ProcOff]
  /\ returned = [p \in Procs |-> <<>>]
  /\ game = NoGame
  /\ ctl = NoCtl

NextCtl ==
  \/ \E c \in Clients : start_game(c)
  \/ \E s \in 1..MaxSessions, out \in {"done", "failed"} : TaskEnds(s, out)
  \/ \E s \in 1..MaxSessions, out \in Ended : TaskCancelled(s, out)
  \/ \E c \in Clients, ok \in BOOLEAN : stop_game(c, ok)
  \/ \E c \in Clients, ok \in BOOLEAN : stop_game_resumes(c, ok)

SpecCtl == InitCtl /\ [][NextCtl]_vars

----------------------------------------------------------------------------
(* Specification of the setup of a page: the scenario template it has loaded *)
(* and the configurations start_game merges from it                          *)

\* load_scenario: the dict the YAML file of the scenario parses to
load_scenario ==
  [empty |-> FALSE,
   players |-> [p \in PlayerNames |->
                  [kind |-> Absent, ioid |-> Absent,
                   advisors |-> IF p = "p1" THEN <<"adv1", "adv2">> ELSE <<"adv2">>]],
   advisors |-> AdvisorNames, moves |-> 2]

\* the infra YAML of the server
infra_config ==
  [data_directory |-> "data", game_id_file |-> "game_id.txt",
   source |-> "openai", model |-> "gpt-4o"]

\* the user_choices the setup form can produce
UserChoices ==
  [roles : [PlayerNames -> {"ai", "human"}],
   active_advisors : SUBSET AdvisorNames,
   moves : {1, 2}]

\* human_index when the roles loop reaches the i-th player
human_index(roles, i) ==
  Cardinality({j \in 1..(i - 1) : roles[PlayerOrder[j]] = "human"})

\* 'Player' + string.ascii_uppercase[n]
PlayerLabel(n) == <<"PlayerA", "PlayerB">>[n + 1]

\* the player dicts after the roles loop and the advisor-reference loop of
\* merge_config have written to them
merged_players(template, user_choices) ==
  [p \in PlayerNames |->
     LET player_cfg == template.players[p]
         kind == user_choices.roles[p]
         i == CHOOSE j \in DOMAIN PlayerOrder : PlayerOrder[j] = p
     IN  [kind |-> kind,
          ioid |-> IF kind = "human" THEN PlayerLabel(human_index(user_choices.roles, i))
                   ELSE player_cfg.ioid,
          advisors |-> SelectSeq(player_cfg.advisors,
                                 LAMBDA a : a \in user_choices.active_advisors)]]

\* merge_config: the dict it returns (config) and the template as the call
\* leaves it.  config = dict(template) copies the top level only, so
\* config['players'] is the template's own dict of player dicts.
merge_config(template, infra, user_choices) ==
  LET players == merged_players(template, user_choices)
  IN  [config |->
         [players |-> players,
          advisors |-> {a \in template.advisors : a \in user_choices.active_advisors},
          moves |-> user_choices.moves,
          data_directory |-> infra.data_directory,
          game_id_file |-> infra.game_id_file,
          source |-> infra.source, model |-> infra.model,
          ai_only |-> ~ \E p \in PlayerNames : players[p].kind = "human"],
       template |-> [template EXCEPT !.players = players]]

\* on_scenario_selected: the page loads the scenario anew
on_scenario_selected ==
  /\ ctl.page.view = "setup"
  /\ ctl' = [ctl EXCEPT !.page.scenario_data = load_scenario]
  /\ UNCHANGED <<now, fs, tracker, op, procs, returned, game>>

\* start_game on the page, up to the merged configuration
start_game_merge(user_choices) ==
  /\ ctl.page.view = "setup"
  /\ ~ ctl.page.scenario_data.empty
  /\ LET m == merge_config(ctl.page.scenario_data, infra_config, user_choices)
     IN  ctl' = [ctl EXCEPT !.page.scenario_data = m.template,
                            !.page.merged = m.config,
                            !.page.choices = user_choices,
                            !.page.view = "game"]
  /\ UNCHANGED <<now, fs, tracker, op, procs, returned, game>>

\* stop_game(reset) on the page: back to the setup view; 'Reset to Setup'
\* empties scenario_data
stop_game_page(reset) ==
  /\ ctl.page.view = "game"
  /\ ctl' = [ctl EXCEPT !.page.view = "setup",
                        !.page.scenario_data = IF reset THEN NoScenario ELSE @]
  /\ UNCHANGED <<now, fs, tracker, op, procs, returned, game>>

InitMerge ==
  /\ now = 0
  /\ fs = EmptyDir
  /\ tracker = NoTracker
  /\ op = NoOp
  /\ procs = [p \in Procs |-> ProcOff]
  /\ returned = [p \in Procs |-> <<>>]
  /\ game = NoGame
  /\ ctl = NoCtl

NextMerge ==
  \/ on_scenario_selected
  \/ \E user_choices \in UserChoices : start_game_merge(user_choices)
  \/ \E reset \in BOOLEAN : stop_game_page(reset)

SpecMerge == InitMerge /\ [][NextMerge]_vars

----------------------------------------------------------------------------
(* Reference sums the ledger claims are stated with: sums over index sets,  *)
(* which do not depend on the order of the list.                            *)

RECURSIVE SumOver(_, _)
SumOver(rs, S) ==
  IF S = {} THEN 0
  ELSE LET i == CHOOSE j \in S : TRUE
       IN  rs[i].cost + SumOver(rs, S \ {i})

WindowIdx(rs, t) == {i \in DOMAIN rs : rs[i].ts >= t - 86400}

WindowSum == SumOver(tracker.records, WindowIdx(tracker.records, now))
TotalSum == SumOver(tracker.records, DOMAIN tracker.records)

\* the reorderings of a list
Reorderings(rs) ==
  {[i \in DOMAIN rs |-> rs[f[i]]] :
     f \in {g \in [DOMAIN rs -> DOMAIN rs] : \A a, b \in DOMAIN rs : g[a] = g[b] => a = b}}

Checked == op.kind = "check" /\ tracker.state = "ok"

\* C1: check_budget(x) raises iff 24h spend + x > daily_cap or total spend
\* + x > total_cap; at exact equality with a cap it does not raise.
C1_CheckBudgetIff ==
  Checked =>
    ((op.res # "ok") <=>
       (WindowSum + op.x > tracker.daily_cap \/ TotalSum + op.x > tracker.total_cap))

\* C1 witness: a check that lands exactly on the daily cap, the lifetime cap
\* not exceeded, and passes
C1_AtCapPasses ==
  /\ Checked
  /\ WindowSum + op.x = tracker.daily_cap
  /\ TotalSum + op.x <= tracker.total_cap
  /\ op.x > 0
  /\ op.res = "ok"

\* C2: the daily cap binds on its own and is checked first: whenever 24h
\* spend + x > daily_cap the failure raised is the daily one, whether or not
\* the lifetime cap is breached too.
C2_DailyFirst ==
  Checked /\ WindowSum + op.x > tracker.daily_cap => op.res = "daily"

\* C2 witness: both caps breached and the daily failure is the one raised
C2_BothBreached ==
  /\ Checked
  /\ WindowSum + op.x > tracker.daily_cap
  /\ TotalSum + op.x > tracker.total_cap
  /\ op.res = "daily"

\* the scenario of the specification: caps 2.00/10.00, one 1.50 call,
\* check_budget(0.60) raises on the daily cap while the lifetime cap passes
C2_Scenario ==
  /\ Checked
  /\ tracker.daily_cap = 2000000 /\ tracker.total_cap = 10000000
  /\ Len(tracker.records) = 1 /\ tracker.records[1].cost = 1500000
  /\ op.x = 600000
  /\ op.res = "daily"

\* C3: spend_last_24h() is the sum of the costs of exactly the records with
\* ts >= now - 86400, spend_total() the sum of all costs, and neither depends
\* on the order of the records.
C3_SpendSums ==
  tracker.state = "ok" =>
    /\ spend_last_24h(tracker.records, now) = WindowSum
    /\ spend_total(tracker.records) = TotalSum
    /\ \A rs \in Reorderings(tracker.records) :
         /\ spend_last_24h(rs, now) = spend_last_24h(tracker.records, now)
         /\ spend_total(rs) = spend_total(tracker.records)

\* C3 witness: one priced record exactly on the window boundary and counted,
\* one priced record just outside it and not counted
C3_OnBoundary ==
  /\ tracker.state = "ok"
  /\ \E i, j \in DOMAIN tracker.records :
       /\ tracker.records[i].ts = now - 86400 /\ tracker.records[i].cost > 0
       /\ tracker.records[j].ts < now - 86400 /\ tracker.records[j].cost > 0
       /\ spend_last_24h(tracker.records, now) = tracker.records[i].cost

LedgerForm == IF fs.dir["ledger"] = 0 THEN "missing" ELSE Form(fs.ino[fs.dir["ledger"]])

\* C6: constructing a ledger never fails because of the backing file: a
\* missing file gives an empty ledger, every corrupt content gives a warning
\* and an empty ledger, and summary() and check_budget() work afterwards.
C6_LoadNeverFails ==
  /\ op.kind = "init" =>
       /\ tracker.state = "ok"
       /\ LedgerForm = "missing" => tracker.records = <<>> /\ tracker.warnings = 0
       /\ LedgerForm \notin {"missing", "array"} =>
            tracker.records = <<>> /\ tracker.warnings = 1
  /\ op.kind \in {"check", "summary"} => op.res # "TypeError"

\* C7: a new ledger constructed on the same path with the same caps, after
\* the first instance's record calls, holds the same record sequence, gives
\* an equal summary() and the same check_budget outcome.
C7_ReloadRoundTrip ==
  op.kind = "reload" /\ tracker.state = "ok" =>
    /\ op.inst.state = "ok"
    /\ op.inst.records = tracker.records
    /\ summary(op.inst, now) = summary(tracker, now)
    /\ \A x \in Estimates : check_budget(op.inst, now, x) = check_budget(tracker, now, x)

\* C7 witness: a reload after a record call on top of an earlier session's
\* record, with spend that counts against the caps
C7_ReloadedAfterRecords ==
  /\ op.kind = "reload" /\ tracker.state = "ok"
  /\ Len(tracker.records) >= 2
  /\ op.inst.records = tracker.records
  /\ summary(op.inst, now).total_spend > 0

----------------------------------------------------------------------------
(* Claims about processes sharing the ledger path *)

Count(seq, e) == Cardinality({i \in DOMAIN seq : seq[i] = e})

LedgerFile == fs.ino[fs.dir["ledger"]]

\* both writers' record() calls overlapped, have returned, and nothing is
\* in progress
BothReturned ==
  /\ \A p \in Writers : procs[p].pc = "idle" /\ Len(returned[p]) = procs[p].calls
  /\ \A p \in Writers : Len(returned[p]) >= 1 /\ procs[p].overlapped

\* C4: after two instances on the same path have each completed a record
\* call, the ledger file holds the union of both records: no record is lost.
C4_UnionKept ==
  BothReturned =>
    /\ fs.dir["ledger"] # 0
    /\ Form(LedgerFile) = "array"
    /\ \A p \in Writers : \A i \in DOMAIN returned[p] :
         Count(LedgerFile.data, returned[p][i]) >= Count(returned[p], returned[p][i])

\* C5: at every point of every interleaving the file at the ledger path, if
\* it exists, is a complete JSON array, and no load ever reads an empty,
\* truncated or half-written ledger file, also when a writer is stopped
\* between two steps of a write.
C5_NeverHalfWritten ==
  /\ fs.dir["ledger"] # 0 => Form(LedgerFile) = "array"
  /\ \A p \in Procs : procs[p].saw \in {"", "array"}

----------------------------------------------------------------------------
(* Claims about the round loop and the task group *)

Caught == game.exc # "none"

\* what the scheduler did in round m: players polled, adjudication, narration
RoundLog(m) ==
  LET inRound(e) == e.move = m
  IN  SelectSeq(game.log, inRound)

\* a round run to its end: every player polled in order, one adjudication,
\* one narration appended
FullRound(m) ==
  [i \in 1..(Len(game.kinds) + 2) |->
     IF i <= Len(game.kinds) THEN [ev |-> "poll", move |-> m, player |-> i]
     ELSE IF i = Len(game.kinds) + 1 THEN [ev |-> "adj", move |-> m, player |-> 0]
     ELSE [ev |-> "narr", move |-> m, player |-> 0]]

\* the round in which CostLimitExceeded was raised, up to the raising call
CutRound(m, p) ==
  [i \in 1..p |->
     IF i <= Len(game.kinds) THEN [ev |-> "poll", move |-> m, player |-> i]
     ELSE [ev |-> "adj", move |-> m, player |-> 0]]

Narrations == {i \in DOMAIN game.history : game.history[i].kind = "narration"}

\* C8: once a call of a round has raised CostLimitExceeded the scheduler
\* polls no further player, makes no adjudication for that round, appends
\* nothing to the timeline, starts no later round, and is concluding.
C8_StopsOnExceeded ==
  [][ /\ Caught' =>
           /\ game'.pc \in {"concl", "done", "cancelled"}
           /\ RoundLog(game.move)' = CutRound(game.move, game.pidx)'
           /\ \A i \in Narrations' : game'.history[i].move < game'.move
      /\ Caught =>
           /\ game'.log = game.log
           /\ game'.history = game.history
           /\ game'.move = game.move /\ game'.pidx = game.pidx ]_vars

\* C8 witness: the first player's call raised, a later player of the round
\* was never polled, and the game has ended
C8_RemainingNotPolled ==
  /\ Caught
  /\ game.pidx < Len(game.kinds)
  /\ game.pc = "done"
  /\ Len(RoundLog(game.move)) = game.pidx

SessionOver == game.group \in {"done", "failed"}

LimitRaised == Caught \/ \E a \in Advisors : game.adv[a].pc = "failed"

\* C10: a CostLimitExceeded raised by any priced call of the session, a call
\* of an advisor chat session included, ends the session gracefully: every
\* human participant gets the spending-limit narration and the failure does
\* not leave the task group.
C10_GracefulEnd ==
  SessionOver /\ LimitRaised =>
    /\ game.group = "done"
    /\ \A h \in Humans(game.kinds) : Count(game.msgs[h], "limit") >= 1

----------------------------------------------------------------------------
(* Claims about stop and cancellation *)

StopPastAwait == game.stop \in {"cleanup", "returned"}

\* C11: once stop_game is past its await, game() and every advisor session
\* that was started have ended and the task is done; from then on nothing is
\* recorded in the ledger and the ledger file is not written.
C11_StopTerminates ==
  [][ /\ StopPastAwait' =>
           /\ GameEnded'
           /\ \A a \in Advisors : game'.adv[a].pc # "off" => AdvisorEnded(a)'
           /\ TaskDone(game')
      /\ StopPastAwait => tracker' = tracker /\ fs' = fs ]_vars

\* C11 witness: a stop has returned after cancelling game() and an advisor
\* session that was suspended, none of them having failed
C11_StoppedMidWait ==
  /\ game.stop = "returned"
  /\ game.pc = "cancelled"
  /\ \E a \in Advisors : game.adv[a].pc = "cancelled"
  /\ game.group = "cancelled"

----------------------------------------------------------------------------
(* Claims about the scheduler's states and the order inside a round *)

\* the scheduler state of the specification a position of game() belongs to
Phase(g) ==
  IF g.pc \in {"created", "setup"} THEN "Setup"
  ELSE IF g.pc \in {"poll", "human_wait", "ai_wait", "adj_wait"} THEN "Running"
  ELSE IF g.pc = "concl" THEN "Concluding"
  ELSE "Terminated"

\* C12: the scheduler only moves Setup -> Running(0), Running(i) ->
\* Running(i+1) with i+1 < N, Running -> Concluding and Concluding ->
\* Terminated; no round is skipped, repeated or started after Concluding, and
\* Terminated is never left.  (A crash of game() on an error other than
\* CostLimitExceeded is left aside.)
C12_SchedulerMoves ==
  [][ \/ game'.pc = "failed"
      \/ /\ Phase(game) = "Setup" =>
              \/ Phase(game') = "Setup"
              \/ Phase(game') = "Running" /\ game'.move = 0
         /\ Phase(game) = "Running" =>
              \/ Phase(game') = "Running" /\ game'.move = game.move
              \/ Phase(game') = "Running" /\ game'.move = game.move + 1
                   /\ game'.move < game.moves
              \/ Phase(game') = "Concluding"
         /\ Phase(game) = "Concluding" =>
              Phase(game') \in {"Concluding", "Terminated"}
         /\ Phase(game) = "Terminated" => Phase(game') = "Terminated" ]_vars

\* the players polled in round m, in the order of the polls
Polls(m) ==
  LET isPoll(e) == e.ev = "poll"
      seq == SelectSeq(RoundLog(m), isPoll)
  IN  [i \in DOMAIN seq |-> seq[i].player]

\* C13: in every round the players are polled in declaration order, each at
\* most once, and a player is polled only once the response of the player
\* before has resolved; the order is the same in every round.
C13_PollOrder ==
  /\ [](\A m \in 0..game.move :
          /\ Polls(m) = [i \in 1..Len(Polls(m)) |-> i]
          /\ Len(Polls(m)) <= Len(game.kinds))
  /\ [](game.responses = [i \in 1..Len(game.responses) |-> i])
  /\ [][ Polls(game.move)' # Polls(game.move) /\ game'.move = game.move =>
           /\ game.pc = "poll"
           /\ Len(game.responses) = Len(Polls(game.move))
           /\ Polls(game.move)' = Append(Polls(game.move), Len(game.responses) + 1) ]_vars

\* C13 witness: in the second round the second player is being polled after
\* the first player's response of that round
C13_SecondPlayerSecondRound ==
  /\ game.move = 1
  /\ game.pc \in {"human_wait", "ai_wait"}
  /\ game.pidx = 2
  /\ game.responses = <<1>>
  /\ Polls(0) = <<1, 2>> /\ Polls(1) = <<1, 2>>

\* the timeline after k completed rounds: the scenario, then one narration
\* per round in the order of the rounds
Timeline(k) ==
  [i \in 1..(k + 1) |->
     IF i = 1 THEN [kind |-> "scenario", move |-> 0]
     ELSE [kind |-> "narration", move |-> i - 2]]

\* the append of the adjudicated narration of the round in flight
NarrationAppended ==
  /\ game.pc = "adj_wait"
  /\ game.responses = [i \in 1..Len(game.kinds) |-> i]
  /\ game'.history = Append(game.history, [kind |-> "narration", move |-> game.move])

\* C14 as stated: in every completed round one adjudication is made, after
\* all responses of the round, and its result is appended as one entry at
\* the end of the timeline; this append is the only write the scheduler
\* makes to the timeline during the whole game.
C14_OnlyWrite ==
  /\ [](\A m \in 0..(game.moves_completed - 1) : RoundLog(m) = FullRound(m))
  /\ [][game'.history # game.history => NarrationAppended]_vars

\* C14 amended: as stated, except that the scheduler also writes the timeline
\* once during Setup, where it clears it and records the scenario as its
\* first entry; from then on the timeline is the scenario followed by one
\* narration per completed round.
C14_OneAdjudicationPerRound ==
  /\ [](\A m \in 0..(game.moves_completed - 1) : RoundLog(m) = FullRound(m))
  /\ [](game.history \in {<<>>, Timeline(game.moves_completed)})
  /\ [](Phase(game) \in {"Running", "Concluding"} => game.history # <<>>)
  /\ [][game'.history # game.history =>
          \/ NarrationAppended
          \/ game.pc = "setup" /\ game'.history = Timeline(0)]_vars

\* C14 witness: a round has been completed and its narration is the last
\* entry of the timeline
C14_RoundNarrated ==
  /\ game.moves_completed = 1
  /\ game.history = Timeline(1)
  /\ RoundLog(0) = FullRound(0)

\* C15: whichever way the round loop ends (moves exhausted, CostLimitExceeded,
\* cancellation by a stop while a round is run) every human participant has got one game-over
\* message and every advisor has been set inactive by the time game() has ended.
C15_AlwaysConcludes ==
  (\/ game.pc = "done"
   \/ /\ game.pc = "cancelled" /\ game.stop # "idle" /\ game.history # <<>>
      /\ \A a \in Advisors : game.adv[a].pc # "failed")
  => /\ \A h \in Humans(game.kinds) : Count(game.msgs[h], "game_over") = 1
     /\ \A a \in Advisors : ~game.adv[a].active

\* C16: advisor chat sessions are started if and only if the session has a
\* human participant, however its configuration was produced.
C16_AdvisorsIffHuman ==
  game.pc # "created" =>
    /\ Humans(game.kinds) # {} => \A a \in Advisors : game.adv[a].pc # "off"
    /\ Humans(game.kinds) = {} => \A a \in Advisors : game.adv[a].pc = "off"

SiblingFailed == game.pc = "failed" \/ \E a \in Advisors : game.adv[a].pc = "failed"

\* C17: with advisor sessions running, the first unhandled failure of game()
\* or of an advisor session stops every other sibling (it makes no further
\* step but to be cancelled), the group finishes only after every sibling has
\* ended, and the failure reaches the caller of the group.
C17_FirstFailureCancelsAll ==
  /\ [](~game.ai_only /\ game.group \in {"done", "failed", "cancelled"} =>
          /\ GameEnded /\ \A a \in Advisors : AdvisorEnded(a)
          /\ SiblingFailed => game.group = "failed")
  /\ [][~game.ai_only /\ SiblingFailed =>
          /\ game'.pc \in {game.pc, "cancelled"}
          /\ \A a \in Advisors : game'.adv[a].pc \in {game.adv[a].pc, "cancelled"}
          /\ game'.log = game.log /\ game'.msgs = game.msgs
          /\ tracker' = tracker /\ fs' = fs]_vars

\* C17 witness: game() failed in a round, two advisor sessions were cancelled
\* and the group has passed the failure on
C17_GameFailedAdvisorsCancelled ==
  /\ game.group = "failed"
  /\ game.pc = "failed"
  /\ Cardinality({a \in Advisors : game.adv[a].pc = "cancelled"}) = 2

\* C18: after the game task has ended, by a stop or by its normal conclusion,
\* the lifecycle controller sets every advisor inactive and makes one final
\* commit, whose failure is not surfaced.
C18_CleanupAfterEnd ==
  game.group \in {"done", "cancelled"} ~>
    /\ \A a \in Advisors : ~game.adv[a].active
    /\ game.commits = 1
    /\ ~game.surfaced

----------------------------------------------------------------------------
(* Claims about the pricing lookup *)

\* C19: for the local provider estimate_cost is 0 for every model name and
\* all character counts, and a record call for the local provider changes
\* neither the 24 hour spend nor the total spend.
C19_LocalIsFree ==
  /\ [](op.kind \in {"estimate", "record"} /\ op.call.source = "ollama" =>
          op.ret = 0)
  /\ [][op'.kind = "record" /\ op'.call.source = "ollama" =>
          /\ Len(tracker'.records) = Len(tracker.records) + 1
          /\ spend_total(tracker'.records) = spend_total(tracker.records)
          /\ spend_last_24h(tracker'.records, now')
               = spend_last_24h(tracker.records, now)]_vars

\* C19 witness: a call of the local provider to a model name that the table
\* prices for another provider has been recorded in a ledger with spend
C19_LocalRecorded ==
  /\ op.kind = "record"
  /\ op.call.source = "ollama"
  /\ op.call.model = <<"gemini-2.5", "-pro">>
  /\ op.call.prompt_chars > 0 /\ op.call.response_chars > 0
  /\ spend_total(tracker.records) > 0

\* the table entries of a provider whose prefix is a prefix of the model name
Matching(source, model) ==
  {i \in DOMAIN PRICING :
     PRICING[i].source = source /\ IsPrefix(PRICING[i].prefix, model)}

\* the rates the stated precedence gives: the exact entry, else the first
\* declared matching entry, else the fallback
RatesByPrecedence(source, model) ==
  IF \E i \in Matching(source, model) : PRICING[i].prefix = model
    THEN LET i == CHOOSE i \in Matching(source, model) : PRICING[i].prefix = model
         IN  <<PRICING[i].input, PRICING[i].output>>
  ELSE IF Matching(source, model) # {}
    THEN LET i == CHOOSE i \in Matching(source, model) :
                    \A j \in Matching(source, model) : i <= j
         IN  <<PRICING[i].input, PRICING[i].output>>
  ELSE <<FALLBACK_PRICE.input, FALLBACK_PRICE.output>>

\* C20: the rates used for (provider, model) are those of the entry keyed
\* exactly (provider, model); otherwise of the first entry in declaration
\* order with that provider whose prefix is a prefix of the model name, not
\* of the longest one; otherwise the fallback rates.
C20_LookupPrecedence ==
  op.kind = "estimate" =>
    op.ret = op.call.prompt_chars * RatesByPrecedence(op.call.source, op.call.model)[1]
           + op.call.response_chars * RatesByPrecedence(op.call.source, op.call.model)[2]

\* C20 witness: a model name that two declared prefixes match is priced at
\* the input rate of the first declared one
C20_EarliestPrefixWins ==
  /\ op.kind = "estimate"
  /\ op.call.source = "openai"
  /\ op.call.model = <<"gpt-4o", "-mini", "-2024">>
  /\ Cardinality(Matching(op.call.source, op.call.model)) = 2
  /\ op.call.prompt_chars = 4000 /\ op.call.response_chars = 0
  /\ op.ret = 4000 * 250

\* C21: a pair of a non-local provider and a model that no table entry
\* matches is priced at the fallback rates; the fallback input and output
\* rates are each strictly greater than every declared input and output
\* rate, so for the same character counts its estimate is never lower than
\* the estimate of any provider and model.
C21_FallbackIsHighest ==
  /\ \A i \in DOMAIN PRICING :
       /\ FALLBACK_PRICE.input > PRICING[i].input
       /\ FALLBACK_PRICE.output > PRICING[i].output
  /\ (op.kind = "estimate" /\ op.call.source # "ollama"
        /\ Matching(op.call.source, op.call.model) = {}) =>
       /\ op.ret = op.call.prompt_chars * FALLBACK_PRICE.input
                 + op.call.response_chars * FALLBACK_PRICE.output
       /\ \A c \in PricedCalls :
            (c.prompt_chars = op.call.prompt_chars
               /\ c.response_chars = op.call.response_chars) =>
              op.ret >= estimate_cost(c.source, c.model,
                                      c.prompt_chars, c.response_chars)

\* C21 witness: a model of a provider the table does not know has been
\* estimated, with input and output characters
C21_UnknownProviderEstimated ==
  /\ op.kind = "estimate"
  /\ op.call.source = "acme"
  /\ Matching(op.call.source, op.call.model) = {}
  /\ op.call.prompt_chars = 4000 /\ op.call.response_chars = 4000
  /\ op.ret = 4000 * 500 + 4000 * 1500

----------------------------------------------------------------------------
(* Claims about the budget check and the records *)

\* what the message should describe: every check that fails
FailedChecks ==
  (IF WindowSum + op.x > tracker.daily_cap
     THEN {Described("daily", WindowSum, op.x, tracker.daily_cap)} ELSE {})
  \cup
  (IF TotalSum + op.x > tracker.total_cap
     THEN {Described("total", TotalSum, op.x, tracker.total_cap)} ELSE {})

\* C22: when check_budget fails, its message gives the spend, the increment
\* and the cap of each check that failed: the 24h spend and daily cap when
\* only the daily check fails, the total spend and lifetime cap when only the
\* lifetime check fails, and both when both fail.
C22_MessageNamesEachFailure ==
  (Checked /\ op.res # "ok") => op.msg = FailedChecks

\* the records the ledger file holds, when it holds an array
FileRecords == IF LedgerForm = "array" THEN LedgerFile.data ELSE <<>>

NonNegative(recs) == \A i \in DOMAIN recs : recs[i].cost >= 0

\* a step keeps the records there were, unchanged and in order, in memory,
\* in the file, and in what a reload reads back
KeepsRecords ==
  /\ (tracker.state = "ok" /\ tracker'.state = "ok")
       => IsPrefix(tracker.records, tracker'.records)
  /\ tracker.state = "ok" => IsPrefix(FileRecords, FileRecords')
  /\ (tracker.state = "ok" /\ op'.kind = "reload")
       => /\ op'.inst.state = "ok"
          /\ IsPrefix(tracker.records, op'.inst.records)

\* C23: every record has cost >= 0, and records are append-only: whatever
\* record, check_budget, summary or reload does, the records that existed
\* before are still there, unchanged and in the same order, in memory and in
\* the ledger file.
C23_AppendOnly ==
  /\ [](NonNegative(tracker.records) /\ NonNegative(FileRecords))
  /\ [][KeepsRecords]_vars

C23_TwoKeptAcrossReload ==
  /\ tracker.state = "ok" /\ Len(tracker.records) = 2
  /\ tracker.records[1] # tracker.records[2]
  /\ FileRecords = tracker.records
  /\ op.kind = "reload" /\ op.inst.records = tracker.records

\* a check_budget call changes nothing, and repeats its outcome when it
\* follows a check_budget call with the same estimate
CheckIsAdvisory ==
  op'.kind = "check" =>
    /\ tracker' = tracker /\ fs' = fs /\ now' = now
    /\ (op.kind = "check" /\ op.x = op'.x) => (op'.res = op.res /\ op'.msg = op.msg)

\* C24: check_budget is advisory and free of side effects: passing or
\* raising, it leaves the record list, the caps and the ledger file as they
\* were, reserves nothing (a second check_budget(x) at the same clock time
\* with no record in between has the same outcome), and it is never held up:
\* right after a check_budget call, whatever its outcome, every
\* check_budget(x) can be taken at once.
C24_CheckReservesNothing ==
  /\ [][CheckIsAdvisory]_vars
  /\ [](op.kind = "check" => \A x \in Estimates : ENABLED CheckBudget(x))

C24_TotalCheckRaised ==
  /\ Checked /\ op.res = "total" /\ op.x = 600000
  /\ Len(tracker.records) = 2 /\ FileRecords = tracker.records
  /\ WindowSum + op.x <= tracker.daily_cap

\* a record made right after a check_budget call that passed
RecordedAfterCheck ==
  /\ tracker.state = "ok" /\ op.kind = "record" /\ op.res = "ok"
  /\ op.after >= 0

LastCost == tracker.records[Len(tracker.records)].cost

\* Original statement of C25: with one caller that checks, calls and then
\* records, after every record the total spend is at most total_cap and the
\* 24h spend at most daily_cap.
C25_CapsAreCeilings ==
  RecordedAfterCheck =>
    /\ TotalSum <= tracker.total_cap
    /\ WindowSum <= tracker.daily_cap

\* C25: with one caller that calls check_budget(x), then the model, then
\* record, the spend after the record is over a cap by no more than the
\* recorded cost is over x: the caps are ceilings only for calls whose
\* estimate was at least their recorded cost.
C25_OvershootWithinUnderestimate ==
  RecordedAfterCheck =>
    /\ TotalSum <= tracker.total_cap + Max(0, LastCost - op.after)
    /\ WindowSum <= tracker.daily_cap + Max(0, LastCost - op.after)

C25_RecordedUpToCap ==
  /\ RecordedAfterCheck
  /\ op.after = 500000 /\ LastCost = op.after
  /\ Len(tracker.records) = 2
  /\ WindowSum = tracker.daily_cap /\ TotalSum = tracker.total_cap

----------------------------------------------------------------------------
(* Claims about callers that share the ledger *)

\* the calls in flight: checked and issued, not yet recorded
InFlight ==
  (IF game.pc \in {"ai_wait", "adj_wait"} THEN 1 ELSE 0)
  + Cardinality({a \in Advisors : game.adv[a].pc = "calling"})

\* a step in which a call in flight resolves
Resolves ==
  \/ game.pc = "ai_wait" /\ game'.pc = "poll"
  \/ game.pc = "adj_wait" /\ game'.pc \in {"poll", "concl"}
  \/ \E a \in Advisors : game.adv[a].pc = "calling" /\ game'.adv[a].pc = "waiting"

\* the record of a resolved call is appended and saved, whatever the spend
RecordNeverRefused ==
  Resolves =>
    /\ tracker'.records = Append(tracker.records, Entry(GameCall(game.source), now))
    /\ FileRecords' = tracker'.records

\* a call in flight can be recorded at once even when a check made now
\* would raise: the ledger holds no caller up
RecordNeverBlocked ==
  (Live /\ InFlight > 0 /\ LlmCheck(CallCost(game.source)) # "ok") =>
    /\ game.pc = "ai_wait" => ENABLED RespondResolved
    /\ game.pc = "adj_wait" => ENABLED AdjudicateResolved
    /\ \A a \in Advisors : game.adv[a].pc = "calling" => ENABLED AdvisorReply(a)

\* C26: caps are best effort under concurrency: two callers near a cap can
\* both pass check_budget before either records, and after both records
\* the spend is over the cap; the ledger neither holds up nor refuses a record,
\* so a call whose check found room can still leave the spend over the cap.
C26_RaceAccepted ==
  /\ [][RecordNeverRefused]_vars
  /\ [](RecordNeverBlocked)
  /\ [](game.raced => (WindowSum > tracker.daily_cap \/ TotalSum > tracker.total_cap))

C26_BothPassedThenOverCap ==
  /\ game.raced /\ InFlight = 0
  /\ Len(tracker.records) = 3
  /\ WindowSum - LastCost <= tracker.daily_cap
  /\ WindowSum > tracker.daily_cap

----------------------------------------------------------------------------
(* Claims about the human turn *)

\* the scheduler is waiting for the response of human player game.pidx
AwaitingHuman == game.pc = "human_wait"

\* the narration was published to the awaited player, last of all that the
\* scheduler did, and nothing of the round after this player has happened
PromptedThenWaiting ==
  AwaitingHuman =>
    /\ game.kinds[game.pidx] = "human"
    /\ game.msgs[game.pidx] # <<>>
    /\ game.msgs[game.pidx][Len(game.msgs[game.pidx])] = "prompt"
    /\ game.log # <<>>
    /\ game.log[Len(game.log)] = [ev |-> "poll", move |-> game.move, player |-> game.pidx]
    /\ game.responses = [i \in 1..(game.pidx - 1) |-> i]

\* a step taken while the scheduler waits: the wait ends only with the
\* player's response (or the cancellation of the task); until then no player
\* is polled, nothing is adjudicated, and the timeline and the move index stay
WaitsForResponse ==
  AwaitingHuman =>
    /\ game'.pc \in {"human_wait", "poll", "cancelled"}
    /\ game'.history = game.history /\ game'.log = game.log
    /\ game'.move = game.move /\ game'.moves_completed = game.moves_completed
    /\ game'.pc = "poll"
         => /\ game'.responses = Append(game.responses, game.pidx)
            /\ game'.pidx = game.pidx + 1
    /\ game'.pc # "poll"
         => game'.responses = game.responses /\ game'.pidx = game.pidx

\* C27: on a human player's turn the scheduler first publishes the latest
\* narration to that player's channel and then waits, with no timeout: until
\* that player's response is submitted no later player of the round is polled,
\* no adjudication is made, the timeline does not change and the move index
\* does not advance.
C27_HumanTurnBlocks ==
  /\ [](PromptedThenWaiting)
  /\ [][WaitsForResponse]_vars

\* C27 witness: the first of two humans is awaited in the second round while
\* an advisor has taken a chat message
C27_AdvisorBusyWhileWaiting ==
  /\ AwaitingHuman /\ game.move = 1 /\ game.pidx = 1
  /\ game.kinds = <<"human", "human">>
  /\ game.chats = 1
  /\ \E a \in Advisors : game.adv[a].pc = "calling"

----------------------------------------------------------------------------
(* Claims about the locking of the ledger file *)

\* p is between open(tmp, "w") and the completed os.replace of its _save
InWrite(p) == procs[p].pc \in {"sv_lock", "sv_dump", "sv_replace"}

\* this step is q truncating (open "w"), writing or renaming the temp file
TouchesTmp(q) ==
  /\ procs[q].pc \in {"sv_open", "sv_dump", "sv_replace"}
  /\ procs'[q] # procs[q]
  /\ procs'[q].pc \notin {"killed", "raised"}

\* this step is r reading the ledger file
ReadsLedger(r) == procs[r].pc = "ld_read" /\ procs'[r].pc # "ld_read"

\* C28: the locking gives mutual exclusion over the whole write: while one
\* writer is between opening the temp file and the completed rename, no other
\* writer truncates, writes or renames the temp file, and no reader reads the
\* ledger.
C28_WriteIsExclusive ==
  [][\A p \in Writers :
       InWrite(p) =>
         /\ \A q \in Writers \ {p} : ~TouchesTmp(q)
         /\ \A r \in Procs \ {p} : ~ReadsLedger(r)]_vars

----------------------------------------------------------------------------
(* Claims about what record leaves behind *)

\* a step that is a record call which returns
RecordReturns == op'.kind = "record" /\ op'.res = "ok"

\* the call appends one record, stamped with the time of the call, at the
\* end of the list, and the file holds the whole list when the call returns
AppendsAndPersists ==
  RecordReturns =>
    /\ Len(tracker'.records) = Len(tracker.records) + 1
    /\ SubSeq(tracker'.records, 1, Len(tracker.records)) = tracker.records
    /\ tracker'.records[Len(tracker'.records)] = Entry(op'.call, now)
    /\ LedgerForm' = "array"
    /\ FileRecords' = tracker'.records

TimeOrdered(recs) ==
  \A i, j \in DOMAIN recs : i <= j => recs[i].ts <= recs[j].ts

\* C29: every record call that returns has appended exactly one record at
\* the end of the list and has saved the list, so that after each record
\* call of a single instance the ledger file holds that instance's list; the
\* records are in the order in which their calls completed: timestamps never
\* decrease along the list.
C29_RecordAppendsAndSaves ==
  /\ [][AppendsAndPersists]_vars
  /\ [](tracker.state = "ok" => TimeOrdered(tracker.records))
  /\ []((tracker.state = "ok" /\ op.kind = "record")
          => (LedgerForm = "array" /\ FileRecords = tracker.records))

C29_SecondRecordLater ==
  /\ tracker.state = "ok" /\ op.kind = "record" /\ op.res = "ok"
  /\ Len(tracker.records) = 2
  /\ tracker.records[1].ts < tracker.records[2].ts
  /\ tracker.records[2] = Entry(op.call, now)
  /\ FileRecords = tracker.records

----------------------------------------------------------------------------
(* Claims about the estimate *)

\* the value of the claim's formula for a call, in 1/UNIT micro-USD:
\* (prompt_chars/4)*inputRate/1e6 + (response_chars/4)*outputRate/1e6
ByFormula(call) ==
  LET rate == _lookup_pricing(call.source, call.model)
  IN  call.prompt_chars * rate.input + call.response_chars * rate.output

\* calls of the same provider and model with at least as many characters
AtLeast(call) ==
  {c \in PricedCalls : /\ c.source = call.source /\ c.model = call.model
                       /\ c.prompt_chars >= call.prompt_chars
                       /\ c.response_chars >= call.response_chars}

\* C30: estimate_cost is a pure, deterministic function: it is
\* (prompt_chars/4)*inputRate/1e6 + (response_chars/4)*outputRate/1e6 with the
\* rates of the pricing lookup, input and output counted apart, whatever the
\* ledger holds; it changes no ledger state; and it never decreases when
\* prompt_chars or response_chars grows.
C30_EstimateIsPure ==
  /\ [](op.kind = "estimate" =>
          /\ op.ret = ByFormula(op.call)
          /\ \A c \in AtLeast(op.call) : op.ret <= ByFormula(c))
  /\ [][op'.kind = "estimate" => (tracker' = tracker /\ fs' = fs)]_vars

C30_EstimatedOnUsedLedger ==
  /\ op.kind = "estimate"
  /\ op.call.source = "openai" /\ op.call.model = <<"gpt-4o">>
  /\ op.call.prompt_chars = 4000 /\ op.call.response_chars = 4000
  /\ op.ret = 4000 * 250 + 4000 * 1000
  /\ Len(tracker.records) = 2

----------------------------------------------------------------------------
(* Claims about the end of a session *)

\* game() has returned after its Conclusion, every advisor is inactive, every
\* chat session that was started has ended and __call__ has returned
Terminated ==
  /\ game.pc = "done" /\ game.group = "done"
  /\ game.moves_completed <= game.moves
  /\ \A a \in Advisors : /\ ~game.adv[a].active
                         /\ game.adv[a].pc \in {"off", "ended"}

\* a respond or adjudicate call ends with an error that is not CostLimitExceeded
OtherFailure == game.pc = "failed"

\* C31: if every player response and every adjudication resolves or raises
\* CostLimitExceeded, and every chat session ends once its advisor is
\* inactive, then the game reaches Terminated after at most N rounds, with
\* every advisor inactive, every chat session ended and the task group
\* completed.
C31_SessionTerminates ==
  [](~OtherFailure) => <>[]Terminated

----------------------------------------------------------------------------
(* Claims about the lifecycle controller *)

Sessions == DOMAIN ctl.sessions

\* this step ends a stop_game call of client c by its return
StopReturns(c) == ctl'.stops[c].returned = ctl.stops[c].returned + 1

\* a stop_game call ends only by returning, and when it returns game_state
\* is empty and the page is back on the setup view
StopEndsClean ==
  \A c \in Clients :
    /\ (ctl.stops[c].pc = "awaiting" /\ ctl'.stops[c].pc = "idle") => StopReturns(c)
    /\ StopReturns(c) =>
         /\ ctl'.state = 0
         /\ ctl'.view[c] = "setup"
         /\ ~ctl'.stops[c].raised

\* stop_game can be called whatever game_state holds, and goes on, with a
\* commit that succeeds or fails, as soon as the task it awaits has ended
StopIsTotal ==
  \A c \in Clients :
    /\ (ctl.view[c] = "game" /\ ctl.stops[c].pc = "idle")
         => ENABLED stop_game(c, TRUE)
    /\ (ctl.stops[c].pc = "awaiting" /\ ctl.sessions[ctl.stops[c].task].task \in Ended)
         => (ENABLED stop_game_resumes(c, TRUE) /\ ENABLED stop_game_resumes(c, FALSE))

\* C32: stop is total and surfaces no error: with no game, with a task that
\* runs, that has finished or that has failed, stop_game completes without
\* raising, cancellation and failure of the awaited task included, and leaves
\* game_state empty: no session, no task, no database handle.
C32_StopIsTotalAndSilent ==
  /\ [][StopEndsClean]_vars
  /\ [](StopIsTotal)
  /\ [](\A c \in Clients : ~ctl.stops[c].raised)

\* C32 witness: a stop that awaited a task which ended with a failure, and
\* whose commit failed, has returned; a later stop found no game
C32_StoppedFailedTask ==
  \E c, d \in Clients :
    /\ c # d
    /\ ctl.stops[c].returned = 1 /\ ctl.stops[c].target # 0
    /\ ctl.sessions[ctl.stops[c].target].task = "failed"
    /\ ctl.sessions[ctl.stops[c].target].flush = "failed"
    /\ ctl.stops[d].returned = 1 /\ ctl.stops[d].target = 0
    /\ ctl.state = 0

Running(s) == ctl.sessions[s].task \in {"running", "cancelling"}

\* the task of session s can be reached: game_state holds it, or a stop_game
\* call that has cancelled it is awaiting it
Reachable(s) ==
  \/ ctl.state = s
  \/ \E c \in Clients : ctl.stops[c].pc = "awaiting" /\ ctl.stops[c].task = s

\* C33: at most one game session is live per controller: after any sequence
\* of start and stop requests, once a stop has completed no game task started
\* by this controller is still running, and every running game task can be
\* reached from the controller's state so that it can be stopped.
C33_OneLiveSession ==
  /\ [](Cardinality({s \in Sessions : Running(s)}) <= 1)
  /\ [](\A s \in Sessions : Running(s) => Reachable(s))
  /\ [][\A c \in Clients :
          StopReturns(c) => \A s \in Sessions : ~ctl'.sessions[s].task = "running"]_vars

\* C34: a stop tears down only the session it was issued against: when a
\* start is processed while the stop is suspended at its await, the stop
\* neither sets the new session's advisors inactive nor erases the new
\* session's entries from game_state.
C34_StopKeepsNewSession ==
  [][\A c \in Clients :
       (StopReturns(c) /\ ctl.state # ctl'.stops[c].target) =>
         /\ ctl'.state = ctl.state
         /\ \A s \in Sessions : ctl'.sessions[s] = ctl.sessions[s]]_vars

----------------------------------------------------------------------------
(* Claims about instances that share the ledger path *)

\* entries other instances have recorded (their record call has returned)
\* that the list of instance `inst` does not hold
RecordedElsewhere(inst) ==
  {e \in UNION {{returned[q][i] : i \in DOMAIN returned[q]} : q \in Procs} :
     \A j \in DOMAIN inst.records : inst.records[j] # e}

\* this step is a check_budget call
ChecksNow == op'.kind = "check" /\ op' # op

\* C35: check_budget enforces the caps against all spend persisted in the
\* ledger file: once another instance on the same path has completed a record
\* call, a later check_budget on this instance counts that record's cost in
\* the 24h spend and in the lifetime spend.
C35_CountsOtherInstances ==
  [][ChecksNow =>
       \A e \in RecordedElsewhere(op'.inst) :
         /\ (InWindow(e, now) /\
             spend_last_24h(op'.inst.records, now) + e.cost + op'.x > op'.inst.daily_cap)
              => op'.res # "ok"
         /\ (spend_total(op'.inst.records) + e.cost + op'.x > op'.inst.total_cap)
              => op'.res # "ok"]_vars

----------------------------------------------------------------------------
(* Claims about how long a refusal lasts *)

\* the lifetime spend leaves no room for an estimate of x
LifetimeExceeded(x) == tracker.state = "ok" /\ TotalSum + x > tracker.total_cap

\* C36: on one ledger instance a lifetime-cap failure is permanent and a
\* daily-cap failure is not: once total spend + x > total_cap it stays so
\* whatever time passes and whatever is recorded, and every check_budget(y)
\* with y >= x raises; a check_budget(x) that the lifetime cap allows passes,
\* with the records as they are, as soon as the records not older than 86400
\* seconds plus x fit the daily cap.
C36_LifetimeFailureIsPermanent ==
  /\ [][\A x \in Estimates : LifetimeExceeded(x) => LifetimeExceeded(x)']_vars
  /\ [](Checked =>
          /\ (\E x \in Estimates : x <= op.x /\ LifetimeExceeded(x)) => op.res # "ok"
          /\ (TotalSum + op.x <= tracker.total_cap /\
              WindowSum + op.x <= tracker.daily_cap) => op.res = "ok")

\* a check refused on the lifetime cap after every record has left the window
C36_RefusedAfterWindowEmptied ==
  /\ Checked
  /\ op.res = "total"
  /\ tracker.records # <<>>
  /\ WindowSum = 0

----------------------------------------------------------------------------
(* Claims about the merged configuration *)

\* this step is a start_game on the page
StartMerges == ctl.page.view = "setup" /\ ctl'.page.view = "game"

\* C37: merge_config leaves its template argument unchanged, so successive
\* starts from the same loaded scenario are independent: every start returns
\* what a merge of the scenario as loaded, with the choices of that start,
\* returns (no login id left from an earlier start on a player that is AI
\* now, every advisor active now in the players' advisor references).
C37_MergeLeavesTemplate ==
  [][StartMerges =>
       /\ ctl'.page.scenario_data = ctl.page.scenario_data
       /\ ctl'.page.merged =
            merge_config(load_scenario, infra_config, ctl'.page.choices).config]_vars

====
